---------------------------- MODULE Spec2Model ----------------------------
(***************************************************************************)
(* Signaling relay of the P2P file sharing application (src/server.js).    *)
(*                                                                         *)
(* The relay keeps two global Maps:                                        *)
(*   devices            deviceId -> socket                                 *)
(*   deviceConnections  deviceId -> connectedDeviceId                      *)
(* and reacts to the socket events register, getDevices, connectToDevice,  *)
(* signal, disconnectPeer and disconnect.  Each action below is one run of *)
(* one handler (Node runs a handler to completion).                        *)
(*                                                                         *)
(* The client side (class P2PFileSharing, kept in the same file, and       *)
(* src/public/js/webrtc-manager.js) is modelled after the relay, each      *)
(* subsystem with its own variable and its own specification; a            *)
(* specification keeps the variables of the other subsystems idle.         *)
(***************************************************************************)
EXTENDS Integers, Sequences, FiniteSets, TLC

\* ------------------------------------------------------------------ bounds
MaxSockets == 2
MaxIds == 2
MaxPayloads == 2

\* --------------------------------------------------------------- universes
IdNames == <<"AAA111", "BBB222", "CCC333", "DDD444", "EEE555">>

DeviceIds == {IdNames[i] : i \in 1..MaxIds}

Sockets == 1..MaxSockets

Payloads == 1..MaxPayloads

\* socket.deviceId of a socket that never registered
Undefined == "undefined"

\* result of devices.get(k) for a key that is not in the Map
NoSocket == 0

\* deviceConnections.has(k) is false
Absent == "absent"

\* keys and values deviceConnections can hold: socket.deviceId may be undefined
ConnKeys == DeviceIds \cup {Undefined}

VARIABLES
  sockState,          \* socket -> "new" | "open" | "closed"
  sockDeviceId,       \* socket.deviceId
  devices,            \* Map deviceId -> socket, in insertion order
  deviceConnections,  \* Map deviceId -> connectedDeviceId
  emitted,            \* the emits of the last handler run, in order
  last,               \* the last handler run and its arguments
  pairedSince         \* history: the pairs {a, b} requested by connectToDevice
                      \* whose two sides have not since disconnected or
                      \* issued disconnectPeer

vars == <<sockState, sockDeviceId, devices, deviceConnections, emitted, last,
          pairedSince>>

\* the client subsystems, one variable each
VARIABLES
  tb,                 \* initiator selection of the two paired peers
  neg,                \* offer/answer negotiation of the two paired peers
  rx,                 \* one sender, the data channel and the receiving peer
  sq,                 \* the send queue of one negotiator and its channel
  wm                  \* one negotiator, its connection and its operations

clientVars == <<tb, neg, rx, sq, wm>>

Idle == "idle"

ClientIdle ==
  tb = Idle /\ neg = Idle /\ rx = Idle /\ sq = Idle /\ wm = Idle

\* --------------------------------------------------- the JavaScript Map API
MapHas(m, k) == \E i \in 1..Len(m) : m[i].id = k

MapGet(m, k) ==
  IF MapHas(m, k) THEN m[CHOOSE i \in 1..Len(m) : m[i].id = k].sock
  ELSE NoSocket

MapSet(m, k, v) ==
  IF MapHas(m, k)
  THEN [i \in 1..Len(m) |-> IF m[i].id = k THEN [id |-> k, sock |-> v] ELSE m[i]]
  ELSE Append(m, [id |-> k, sock |-> v])

MapDelete(m, k) ==
  LET keep(e) == e.id # k IN SelectSeq(m, keep)

ConnHas(c, k) == c[k] # Absent

ConnSet(c, k, v) == [c EXCEPT ![k] = v]

ConnDelete(c, k) == IF k \in DOMAIN c THEN [c EXCEPT ![k] = Absent] ELSE c

\* ------------------------------------------------------------------ events
Event(s, name, id, data, msg, list) ==
  [to |-> s, ev |-> name, id |-> id, data |-> data, msg |-> msg, list |-> list]

ErrorEv(s, msg) == Event(s, "error", Undefined, 0, msg, <<>>)

PeerConnectedEv(s, peerId) == Event(s, "peerConnected", peerId, 0, "", <<>>)

PeerDisconnectedEv(s) == Event(s, "peerDisconnected", Undefined, 0, "", <<>>)

SignalEv(s, from, data) == Event(s, "signal", from, data, "", <<>>)

DeviceListEv(s, list) == Event(s, "deviceList", Undefined, 0, "", list)

\* Array.from(devices.keys()).map(id => ({id, connected: deviceConnections.has(id)}))
DeviceList(devs, conns) ==
  [i \in 1..Len(devs) |->
     [id |-> devs[i].id, connected |-> ConnHas(conns, devs[i].id)]]

\* io.emit: one emit per socket that is connected, in socket order
RECURSIVE IoEmit(_, _, _)
IoEmit(n, open, list) ==
  IF n = 0 THEN <<>>
  ELSE IF n \in open
       THEN Append(IoEmit(n - 1, open, list), DeviceListEv(n, list))
       ELSE IoEmit(n - 1, open, list)

broadcastDeviceList(open, devs, conns) ==
  IoEmit(MaxSockets, open, DeviceList(devs, conns))

OpenSockets(st) == {s \in Sockets : st[s] = "open"}

Call(op, s, arg, data) == [op |-> op, sock |-> s, arg |-> arg, data |-> data]

\* -------------------------------------------------------------------- Init
RelayIdle ==
  /\ sockState = [s \in Sockets |-> "new"]
  /\ sockDeviceId = [s \in Sockets |-> Undefined]
  /\ devices = <<>>
  /\ deviceConnections = [k \in ConnKeys |-> Absent]
  /\ emitted = <<>>
  /\ last = Call("init", NoSocket, Undefined, 0)
  /\ pairedSince = {}

Init == RelayIdle /\ ClientIdle

\* io.on('connection'): sockets are numbered in the order they connect
Connection(s) ==
  /\ sockState[s] = "new"
  /\ \A r \in Sockets : r < s => sockState[r] # "new"
  /\ sockState' = [sockState EXCEPT ![s] = "open"]
  /\ emitted' = <<>>
  /\ last' = Call("connection", s, Undefined, 0)
  /\ UNCHANGED <<sockDeviceId, devices, deviceConnections, pairedSince>>

\* socket.on('register')
Register(s, deviceId) ==
  /\ sockState[s] = "open"
  /\ devices' = MapSet(devices, deviceId, s)
  /\ sockDeviceId' = [sockDeviceId EXCEPT ![s] = deviceId]
  /\ emitted' = broadcastDeviceList(OpenSockets(sockState), devices', deviceConnections)
  /\ last' = Call("register", s, deviceId, 0)
  /\ UNCHANGED <<sockState, deviceConnections, pairedSince>>

\* socket.on('getDevices')
GetDevices(s) ==
  /\ sockState[s] = "open"
  /\ emitted' = <<DeviceListEv(s, DeviceList(devices, deviceConnections))>>
  /\ last' = Call("getDevices", s, Undefined, 0)
  /\ UNCHANGED <<sockState, sockDeviceId, devices, deviceConnections, pairedSince>>

\* history bookkeeping for pairedSince: the identifiers whose handle is s,
\* by socket.deviceId or by the registry entry
IdsOfHandle(s) ==
  {sockDeviceId[s]} \cup {id \in DeviceIds : MapGet(devices, id) = s}

EndPairingsOf(s) == {p \in pairedSince : p \cap IdsOfHandle(s) = {}}

\* a's handle asks for b, both registered and distinct
PairingRequest(s, t) ==
  /\ sockDeviceId[s] # Undefined
  /\ sockDeviceId[s] # t
  /\ MapGet(devices, sockDeviceId[s]) = s
  /\ MapHas(devices, t)

\* connectToDevice without the "Device not found" guard: the pairing is stored
\* and announced whether or not the target is registered
ConnectToDevice_NoFoundGuard(s, targetDeviceId) ==
  LET targetSocket == MapGet(devices, targetDeviceId) IN
  /\ sockState[s] = "open"
  /\ last' = Call("connectToDevice", s, targetDeviceId, 0)
  /\ IF targetSocket = s
     THEN /\ emitted' = <<ErrorEv(s, "Cannot connect to yourself")>>
          /\ UNCHANGED deviceConnections
     ELSE /\ deviceConnections' =
               ConnSet(ConnSet(deviceConnections, sockDeviceId[s], targetDeviceId),
                       targetDeviceId, sockDeviceId[s])
          /\ emitted' = <<PeerConnectedEv(s, targetDeviceId)>> \o
                         (IF targetSocket # NoSocket
                          THEN <<PeerConnectedEv(targetSocket, sockDeviceId[s])>>
                          ELSE <<>>)
  /\ pairedSince' = IF PairingRequest(s, targetDeviceId)
                    THEN pairedSince \cup {{sockDeviceId[s], targetDeviceId}}
                    ELSE pairedSince
  /\ UNCHANGED <<sockState, sockDeviceId, devices>>

\* socket.on('connectToDevice')
ConnectToDevice(s, targetDeviceId) ==
  LET targetSocket == MapGet(devices, targetDeviceId) IN
  /\ sockState[s] = "open"
  /\ last' = Call("connectToDevice", s, targetDeviceId, 0)
  /\ IF targetSocket = NoSocket
     THEN /\ emitted' = <<ErrorEv(s, "Device not found")>>
          /\ UNCHANGED deviceConnections
     ELSE IF targetSocket = s
     THEN /\ emitted' = <<ErrorEv(s, "Cannot connect to yourself")>>
          /\ UNCHANGED deviceConnections
     ELSE /\ deviceConnections' =
               ConnSet(ConnSet(deviceConnections, sockDeviceId[s], targetDeviceId),
                       targetDeviceId, sockDeviceId[s])
          /\ emitted' = <<PeerConnectedEv(s, targetDeviceId),
                          PeerConnectedEv(targetSocket, sockDeviceId[s])>>
  /\ pairedSince' = IF PairingRequest(s, targetDeviceId)
                    THEN pairedSince \cup {{sockDeviceId[s], targetDeviceId}}
                    ELSE pairedSince
  /\ UNCHANGED <<sockState, sockDeviceId, devices>>

\* signal relayed to the sender's paired peer instead of the addressee `to`
Signal_ToPairedPeer(s, to, data) ==
  LET peerId == deviceConnections[sockDeviceId[s]]
      targetSocket == MapGet(devices, peerId)
  IN
  /\ sockState[s] = "open"
  /\ last' = Call("signal", s, to, data)
  /\ emitted' = IF targetSocket # NoSocket
                THEN <<SignalEv(targetSocket, sockDeviceId[s], data)>>
                ELSE <<>>
  /\ UNCHANGED <<sockState, sockDeviceId, devices, deviceConnections, pairedSince>>

\* socket.on('signal')
Signal(s, to, data) ==
  LET targetSocket == MapGet(devices, to) IN
  /\ sockState[s] = "open"
  /\ last' = Call("signal", s, to, data)
  /\ emitted' = IF targetSocket # NoSocket
                THEN <<SignalEv(targetSocket, sockDeviceId[s], data)>>
                ELSE <<>>
  /\ UNCHANGED <<sockState, sockDeviceId, devices, deviceConnections, pairedSince>>

\* socket.on('disconnectPeer')
DisconnectPeer(s) ==
  LET deviceId == sockDeviceId[s]
      connectedDeviceId == deviceConnections[deviceId]
      connectedSocket == MapGet(devices, connectedDeviceId)
  IN
  /\ sockState[s] = "open"
  /\ last' = Call("disconnectPeer", s, Undefined, 0)
  /\ IF deviceId # Undefined /\ ConnHas(deviceConnections, deviceId)
     THEN /\ deviceConnections' =
               ConnDelete(ConnDelete(deviceConnections, deviceId), connectedDeviceId)
          /\ emitted' =
               (IF connectedSocket # NoSocket
                THEN <<PeerDisconnectedEv(connectedSocket)>> ELSE <<>>)
               \o <<PeerDisconnectedEv(s)>>
     ELSE /\ emitted' = <<>>
          /\ UNCHANGED deviceConnections
  /\ pairedSince' = EndPairingsOf(s)
  /\ UNCHANGED <<sockState, sockDeviceId, devices>>

\* socket.on('disconnect'): socket.io has already taken the socket out of the
\* namespace when the handler runs, so io.emit does not reach it
Disconnect(s) ==
  LET deviceId == sockDeviceId[s]
      devs1 == MapDelete(devices, deviceId)
      connectedDeviceId == deviceConnections[deviceId]
      connectedSocket == MapGet(devs1, connectedDeviceId)
      paired == ConnHas(deviceConnections, deviceId)
      conns1 == IF paired
                THEN ConnDelete(ConnDelete(deviceConnections, deviceId),
                                connectedDeviceId)
                ELSE deviceConnections
  IN
  /\ sockState[s] = "open"
  /\ sockState' = [sockState EXCEPT ![s] = "closed"]
  /\ last' = Call("disconnect", s, Undefined, 0)
  /\ IF deviceId # Undefined
     THEN /\ devices' = devs1
          /\ deviceConnections' = conns1
          /\ emitted' =
               (IF paired /\ connectedSocket # NoSocket
                THEN <<PeerDisconnectedEv(connectedSocket)>> ELSE <<>>)
               \o broadcastDeviceList(OpenSockets(sockState'), devs1, conns1)
     ELSE /\ emitted' = <<>>
          /\ UNCHANGED <<devices, deviceConnections>>
  /\ pairedSince' = EndPairingsOf(s)
  /\ UNCHANGED sockDeviceId

Next ==
  /\ \/ \E s \in Sockets : Connection(s)
     \/ \E s \in Sockets, d \in DeviceIds : Register(s, d)
     \/ \E s \in Sockets : GetDevices(s)
     \/ \E s \in Sockets, t \in DeviceIds : ConnectToDevice(s, t)
     \/ \E s \in Sockets, t \in DeviceIds, d \in Payloads : Signal(s, t, d)
     \/ \E s \in Sockets : DisconnectPeer(s)
     \/ \E s \in Sockets : Disconnect(s)
  /\ UNCHANGED clientVars

Spec == Init /\ [][Next]_vars

\* ------------------------------------------------------- shared vocabulary
\* the emits of the last handler run, as a set
Emits == {emitted[i] : i \in 1..Len(emitted)}

EmitsNext == {emitted'[i] : i \in 1..Len(emitted')}

ConnKeysOf(c) == {k \in ConnKeys : ConnHas(c, k)}

ConnValuesOf(c) == {c[k] : k \in ConnKeysOf(c)}

\* the entries of the pairing table that relate two device identifiers
IdKeysOf(c) == {k \in DeviceIds : c[k] \in DeviceIds}

IdValuesOf(c) == {c[k] : k \in IdKeysOf(c)}

\* id is listed with connected = true in the list getDevices would produce
ListedConnected(id) ==
  \E i \in 1..Len(devices) :
     DeviceList(devices, deviceConnections)[i] = [id |-> id, connected |-> TRUE]

\* ---------------------------------------------------------------------- C1
\* C1: for distinct registered identifiers a and b, when a's handle issues
\* connectToDevice(b) the relay emits peerConnected(b) to a's handle and
\* peerConnected(a) to b's handle, and from then on, until one of the two
\* disconnects or issues disconnectPeer, every deviceList lists both a and b
\* with connected = true.
C1_PairingNotifiesAndLists ==
  /\ [](\A p \in pairedSince : \A id \in p : ListedConnected(id))
  /\ [][\A s \in Sockets, t \in DeviceIds :
          (last' = Call("connectToDevice", s, t, 0) /\ PairingRequest(s, t)) =>
             /\ PeerConnectedEv(s, t) \in EmitsNext
             /\ PeerConnectedEv(MapGet(devices, t), sockDeviceId[s]) \in EmitsNext]_vars

\* ---------------------------------------------------------------------- C2
\* C2: connectToDevice(t) with t not registered sends error("Device not found")
\* to the requester and to nobody else, emits no peerConnected, and leaves the
\* device registry and the pairing table as they were.
C2_DeviceNotFound ==
  [][\A s \in Sockets, t \in DeviceIds :
       (last' = Call("connectToDevice", s, t, 0) /\ ~MapHas(devices, t)) =>
          /\ emitted' = <<ErrorEv(s, "Device not found")>>
          /\ devices' = devices
          /\ deviceConnections' = deviceConnections]_vars

\* a not-found answer given while both the registry and the pairing table hold entries
C2_Witness ==
  /\ last.op = "connectToDevice"
  /\ ~MapHas(devices, last.arg)
  /\ emitted = <<ErrorEv(last.sock, "Device not found")>>
  /\ devices # <<>>
  /\ ConnKeysOf(deviceConnections) # {}

\* ---------------------------------------------------------------------- C3
\* C3: a pairing request whose target is the requester's own registered
\* identifier fails with error("Cannot connect to yourself") and changes
\* nothing, so the pairing table never maps an identifier to itself.
C3_NoSelfPairing ==
  /\ [](\A k \in ConnKeys : deviceConnections[k] # k)
  /\ [][\A s \in Sockets :
          (last' = Call("connectToDevice", s, sockDeviceId[s], 0)) =>
             /\ emitted' = <<ErrorEv(s, "Cannot connect to yourself")>>
             /\ devices' = devices
             /\ deviceConnections' = deviceConnections]_vars

\* ---------------------------------------------------------------------- C4
\* C4: the pairing table is symmetric in every reachable state: whenever it
\* maps a to b it maps b to a.
C4_PairingSymmetric ==
  \A a \in IdKeysOf(deviceConnections) :
     deviceConnections[deviceConnections[a]] = a

\* ---------------------------------------------------------------------- C5
\* C5: every identifier takes part in at most one pairing: no identifier is
\* the target of entries held by two different identifiers, and whoever
\* points at an identifier that has an entry is the identifier it points at.
C5_AtMostOnePairing ==
  /\ \A k1, k2 \in IdKeysOf(deviceConnections) :
        k1 # k2 => deviceConnections[k1] # deviceConnections[k2]
  /\ \A k1, k2 \in IdKeysOf(deviceConnections) :
        deviceConnections[k1] = k2 => deviceConnections[k2] = k1

\* ---------------------------------------------------------------------- C6
\* C6: every identifier in the pairing table, key or value, is a registered
\* identifier whose registry entry maps to a connected handle.
C6_PairedAreRegistered ==
  \A id \in ConnKeysOf(deviceConnections) \cup ConnValuesOf(deviceConnections) :
     /\ id \in DeviceIds
     /\ MapHas(devices, id)
     /\ sockState[MapGet(devices, id)] = "open"

\* ---------------------------------------------------------------------- C7
\* C7: signal({to, data}) emits signal({from, data}) exactly once, to the
\* handle registered under `to`, with from the sender's identifier and data
\* unchanged; with nobody registered under `to` it emits nothing; the
\* registry and the pairing table are unchanged in both cases.
C7_SignalRelay ==
  [][\A s \in Sockets, to \in DeviceIds, data \in Payloads :
       (last' = Call("signal", s, to, data)) =>
          /\ emitted' = IF MapHas(devices, to)
                        THEN <<SignalEv(MapGet(devices, to), sockDeviceId[s], data)>>
                        ELSE <<>>
          /\ devices' = devices
          /\ deviceConnections' = deviceConnections]_vars

\* a registered sender's payload relayed to another handle while a pairing exists
C7_Witness ==
  /\ last.op = "signal"
  /\ sockDeviceId[last.sock] # Undefined
  /\ MapHas(devices, last.arg)
  /\ MapGet(devices, last.arg) # last.sock
  /\ emitted = <<SignalEv(MapGet(devices, last.arg), sockDeviceId[last.sock], last.data)>>
  /\ last.data = MaxPayloads
  /\ ConnKeysOf(deviceConnections) # {}

\* ---------------------------------------------------------------------- C8
\* C8: disconnectPeer by a device d paired with p sends peerDisconnected to
\* p's handle (if registered) and leaves neither d nor p anywhere in the
\* pairing table; with d unpaired it changes nothing and notifies nobody.
C8_DisconnectPeer ==
  [][\A s \in Sockets :
       (last' = Call("disconnectPeer", s, Undefined, 0)) =>
          LET d == sockDeviceId[s]
              p == deviceConnections[d]
          IN
          /\ (d \in DeviceIds /\ p \in DeviceIds) =>
                /\ MapHas(devices, p) =>
                      PeerDisconnectedEv(MapGet(devices, p)) \in EmitsNext
                /\ {d, p} \cap IdKeysOf(deviceConnections') = {}
                /\ {d, p} \cap IdValuesOf(deviceConnections') = {}
          /\ (d = Undefined \/ ~ConnHas(deviceConnections, d)) =>
                /\ emitted' = <<>>
                /\ devices' = devices
                /\ deviceConnections' = deviceConnections]_vars

\* ---------------------------------------------------------------------- C9
\* C9: after the handle registered as d disconnects, d is absent from the
\* registry and from the pairing table (key and value), d's former peer has
\* been sent peerDisconnected, and the new deviceList has been broadcast to
\* every remaining handle.
C9_Disconnect ==
  [][\A s \in Sockets :
       (/\ last' = Call("disconnect", s, Undefined, 0)
        /\ sockDeviceId[s] # Undefined
        /\ MapGet(devices, sockDeviceId[s]) = s) =>
          LET d == sockDeviceId[s]
              p == deviceConnections[d]
          IN
          /\ ~MapHas(devices', d)
          /\ d \notin ConnKeysOf(deviceConnections')
          /\ d \notin IdValuesOf(deviceConnections')
          /\ (p \in DeviceIds /\ MapHas(devices', p)) =>
                PeerDisconnectedEv(MapGet(devices', p)) \in EmitsNext
          /\ \A r \in OpenSockets(sockState') :
                DeviceListEv(r, DeviceList(devices', deviceConnections')) \in EmitsNext]_vars

\* --------------------------------------------------------------------- C10
\* The relay runs every handler whose event is pending, and every connection
\* comes and ends.  A behaviour that violates a property under this fairness
\* violates it under any weaker one.
FairSpec ==
  /\ Spec
  /\ WF_vars(Next)
  /\ \A s \in Sockets : WF_vars(Connection(s)) /\ WF_vars(Disconnect(s))

StaleEntry(id) ==
  MapHas(devices, id) /\ sockState[MapGet(devices, id)] = "closed"

\* C10: every registry entry whose handle is no longer connected is
\* eventually removed from the registry.
C10_StaleEntriesRemoved ==
  \A id \in DeviceIds : StaleEntry(id) ~> ~StaleEntry(id)


(***************************************************************************)
(* Session coordinator: who creates the offer (P2PFileSharing              *)
(* .startFileTransfer).  Identifiers are strings of the characters the     *)
(* validation accepts, /^[a-zA-Z0-9]+$/ of length 3..20; a character is    *)
(* its UTF-16 code unit.                                                   *)
(***************************************************************************)
\* Utils.validateDeviceId: the shortest identifier
MinIdLen == 3

\* the longest identifier the model draws
MaxIdLen == 4

\* '1', 'A', 'a'
IdChars == {49, 65, 97}

RECURSIVE StringsOfLen(_)
StringsOfLen(n) ==
  IF n = 0 THEN {<<>>}
  ELSE {Append(w, c) : w \in StringsOfLen(n - 1), c \in IdChars}

ValidIds == UNION {StringsOfLen(n) : n \in MinIdLen..MaxIdLen}

IsUpper(c) == c >= 65 /\ c <= 90

IsLower(c) == c >= 97 /\ c <= 122

\* collation keys of String.prototype.localeCompare for ASCII letters and
\* digits: digits sort before letters, letters by the alphabet whatever
\* their case, and on a tie lower case sorts before upper case
PrimaryKey(c) ==
  IF IsUpper(c) THEN 10 + (c - 65)
  ELSE IF IsLower(c) THEN 10 + (c - 97)
  ELSE c - 48

TertiaryKey(c) == IF IsUpper(c) THEN 1 ELSE 0

\* -1, 0, 1: the order of two key sequences, a proper prefix first
RECURSIVE CompareKeys(_, _)
CompareKeys(x, y) ==
  IF x = <<>> /\ y = <<>> THEN 0
  ELSE IF x = <<>> THEN -1
  ELSE IF y = <<>> THEN 1
  ELSE IF Head(x) < Head(y) THEN -1
  ELSE IF Head(x) > Head(y) THEN 1
  ELSE CompareKeys(Tail(x), Tail(y))

\* localeCompare with the case difference ignored (sensitivity 'base')
localeCompare_Base(a, b) ==
  CompareKeys([i \in 1..Len(a) |-> PrimaryKey(a[i])],
              [i \in 1..Len(b) |-> PrimaryKey(b[i])])

\* a.localeCompare(b)
localeCompare(a, b) ==
  LET p == CompareKeys([i \in 1..Len(a) |-> PrimaryKey(a[i])],
                       [i \in 1..Len(b) |-> PrimaryKey(b[i])])
  IN IF p # 0 THEN p
     ELSE CompareKeys([i \in 1..Len(a) |-> TertiaryKey(a[i])],
                      [i \in 1..Len(b) |-> TertiaryKey(b[i])])

\* const shouldCreateOffer = this.deviceId.localeCompare(this.peerId) < 0
ShouldCreateOffer(deviceId, peerId) == localeCompare(deviceId, peerId) < 0

\* the lexicographic order of the code units (the order of JavaScript's <)
LexLess(a, b) == CompareKeys(a, b) < 0

AllUpper(a) == \A i \in 1..Len(a) : ~IsLower(a[i])

\* two paired peers a and b, each about to run startFileTransfer
TbInit ==
  /\ tb \in [a : ValidIds, b : ValidIds, ranA : {FALSE}, ranB : {FALSE},
             offerA : {FALSE}, offerB : {FALSE}]
  /\ tb.a # tb.b
  /\ RelayIdle
  /\ neg = Idle /\ rx = Idle /\ sq = Idle /\ wm = Idle

\* startFileTransfer at peer a: deviceId = a, peerId = b
StartFileTransferA ==
  /\ ~tb.ranA
  /\ tb' = [tb EXCEPT !.ranA = TRUE, !.offerA = ShouldCreateOffer(tb.a, tb.b)]
  /\ UNCHANGED <<vars, neg, rx, sq, wm>>

\* startFileTransfer at peer b: deviceId = b, peerId = a
StartFileTransferB ==
  /\ ~tb.ranB
  /\ tb' = [tb EXCEPT !.ranB = TRUE, !.offerB = ShouldCreateOffer(tb.b, tb.a)]
  /\ UNCHANGED <<vars, neg, rx, sq, wm>>

TbNext == StartFileTransferA \/ StartFileTransferB

TbSpec == TbInit /\ [][TbNext]_<<vars, clientVars>>

Peers == {1, 2}

Other(p) == 3 - p

\* ICE candidates a connection gathers for one local description
MaxCandidates == 1

NoDesc == [type |-> "none", from |-> 0]

Offer(p) == [type |-> "offer", from |-> p]

Answer(p) == [type |-> "answer", from |-> p]

Candidate(p) == [type |-> "candidate", from |-> p]

\* a WebRTCManager after initializePeerConnection, with its RTCPeerConnection
NewNegotiator ==
  [signalingState |-> "stable",
   pendingLocal |-> NoDesc, pendingRemote |-> NoDesc,
   currentLocal |-> NoDesc, currentRemote |-> NoDesc,
   remoteCandidates |-> <<>>,
   isCreatingOffer |-> FALSE, isHandlingOffer |-> FALSE,
   isHandlingAnswer |-> FALSE,
   remoteDescriptionSet |-> FALSE, iceCandidateQueue |-> <<>>,
   timer |-> TRUE,            \* the setTimeout of startFileTransfer is armed
   toGather |-> 0,            \* candidates onicecandidate has still to report
   heldOffer |-> FALSE,       \* history: an offer arrived while this peer was
                              \* creating or holding a local offer
   dropped |-> 0,             \* history: signals handleSignal skipped
   rejected |-> 0]            \* history: answers handleAnswer threw on

NegInit ==
  /\ neg = [peer |-> [p \in Peers |-> NewNegotiator],
            inbox |-> [p \in Peers |-> <<>>]]
  /\ RelayIdle
  /\ tb = Idle /\ rx = Idle /\ sq = Idle /\ wm = Idle

\* socketManager.sendSignal(peerId, data): the relay forwards in order
SendSignal(inbox, from, data) ==
  [inbox EXCEPT ![Other(from)] = Append(@, data)]

\* resetConnection: roll a pending description back to stable
resetConnection(n) ==
  [n EXCEPT !.signalingState = "stable",
            !.pendingLocal = NoDesc, !.pendingRemote = NoDesc]

\* the guards of a timer callback of startFileTransfer: peer 1 always creates
\* the offer, peer 2 only without a current remote description
TimerCreatesOffer(p) ==
  \/ p = 1
  \/ p = 2 /\ neg.peer[p].currentRemote = NoDesc

\* the timer callback up to createOffer's `await this.pc.createOffer()`
CreateOfferStart(p) ==
  LET n == neg.peer[p] IN
  /\ n.timer
  /\ ~n.isHandlingOffer /\ ~n.isHandlingAnswer
  /\ neg' = [neg EXCEPT !.peer[p] =
       IF TimerCreatesOffer(p) /\ ~n.isCreatingOffer
       THEN [(IF n.signalingState # "stable" THEN resetConnection(n) ELSE n)
               EXCEPT !.timer = FALSE, !.isCreatingOffer = TRUE]
       ELSE [n EXCEPT !.timer = FALSE]]
  /\ UNCHANGED <<vars, tb, rx, sq, wm>>

\* createOffer from setLocalDescription(offer) to its return, and the
\* caller's sendSignal of the offer
CreateOfferFinish(p) ==
  LET n == neg.peer[p] IN
  /\ n.isCreatingOffer
  /\ neg' = [neg EXCEPT
       !.peer[p] = [n EXCEPT !.signalingState = "have-local-offer",
                             !.pendingLocal = Offer(p),
                             !.toGather = MaxCandidates,
                             !.isCreatingOffer = FALSE],
       !.inbox = SendSignal(@, p, Offer(p))]
  /\ UNCHANGED <<vars, tb, rx, sq, wm>>

\* pc.onicecandidate: a gathered candidate goes to the peer
OnIceCandidate(p) ==
  LET n == neg.peer[p] IN
  /\ n.toGather > 0
  /\ neg' = [neg EXCEPT !.peer[p].toGather = @ - 1,
                        !.inbox = SendSignal(@, p, Candidate(p))]
  /\ UNCHANGED <<vars, tb, rx, sq, wm>>

\* pc.addIceCandidate: needs a remote description, or it throws
PcAddIceCandidate(n, c) ==
  IF n.pendingRemote # NoDesc \/ n.currentRemote # NoDesc
  THEN [n EXCEPT !.remoteCandidates = Append(@, c)]
  ELSE n

\* processIceCandidateQueue
RECURSIVE processIceCandidateQueue(_)
processIceCandidateQueue(n) ==
  IF n.iceCandidateQueue = <<>> THEN n
  ELSE processIceCandidateQueue(
         [PcAddIceCandidate(n, Head(n.iceCandidateQueue))
            EXCEPT !.iceCandidateQueue = Tail(n.iceCandidateQueue)])

\* addIceCandidate
addIceCandidate(n, c) ==
  IF ~n.remoteDescriptionSet
  THEN [n EXCEPT !.iceCandidateQueue = Append(@, c)]
  ELSE PcAddIceCandidate(n, c)

\* handleOffer up to the draining of the candidate queue
handleOfferStart(n, offer) ==
  LET stable == IF n.signalingState # "stable" THEN resetConnection(n) ELSE n
      remote == [stable EXCEPT !.isHandlingOffer = TRUE,
                               !.signalingState = "have-remote-offer",
                               !.pendingRemote = offer,
                               !.remoteDescriptionSet = TRUE]
  IN processIceCandidateQueue(remote)

\* handleAnswer: throws unless the connection is in have-local-offer
handleAnswerStart(n, answer) ==
  IF n.signalingState # "have-local-offer"
  THEN [n EXCEPT !.rejected = @ + 1]
  ELSE [n EXCEPT !.isHandlingAnswer = TRUE,
                 !.signalingState = "stable",
                 !.currentLocal = n.pendingLocal,
                 !.currentRemote = answer,
                 !.pendingLocal = NoDesc,
                 !.remoteDescriptionSet = TRUE]

\* handleSignal: the next signal the relay delivers to peer p
HandleSignal(p) ==
  LET n    == neg.peer[p]
      data == Head(neg.inbox[p])
      held == n.isCreatingOffer \/ n.signalingState = "have-local-offer"
      seen == [n EXCEPT !.heldOffer = @ \/ (data.type = "offer" /\ held)]
  IN
  /\ neg.inbox[p] # <<>>
  /\ neg' = [neg EXCEPT
       !.inbox[p] = Tail(@),
       !.peer[p] =
         IF n.isCreatingOffer \/ n.isHandlingOffer \/ n.isHandlingAnswer
           THEN [seen EXCEPT !.dropped = @ + 1]
         ELSE IF data.type = "offer" THEN handleOfferStart(seen, data)
         ELSE IF data.type = "answer" THEN handleAnswerStart(seen, data)
         ELSE addIceCandidate(seen, data)]
  /\ UNCHANGED <<vars, tb, rx, sq, wm>>

\* handleOffer from createAnswer to its return, and handleSignal's sendSignal
\* of the answer
HandleOfferFinish(p) ==
  LET n == neg.peer[p] IN
  /\ n.isHandlingOffer
  /\ neg' = [neg EXCEPT
       !.peer[p] = [n EXCEPT !.signalingState = "stable",
                             !.currentLocal = Answer(p),
                             !.currentRemote = n.pendingRemote,
                             !.pendingRemote = NoDesc,
                             !.toGather = MaxCandidates,
                             !.isHandlingOffer = FALSE],
       !.inbox = SendSignal(@, p, Answer(p))]
  /\ UNCHANGED <<vars, tb, rx, sq, wm>>

\* handleAnswer after setRemoteDescription(answer): drain and return
HandleAnswerFinish(p) ==
  LET n == neg.peer[p] IN
  /\ n.isHandlingAnswer
  /\ neg' = [neg EXCEPT !.peer[p] =
       [processIceCandidateQueue(n) EXCEPT !.isHandlingAnswer = FALSE]]
  /\ UNCHANGED <<vars, tb, rx, sq, wm>>

NegNext ==
  \E p \in Peers :
    \/ CreateOfferStart(p)
    \/ CreateOfferFinish(p)
    \/ OnIceCandidate(p)
    \/ HandleSignal(p)
    \/ HandleOfferFinish(p)
    \/ HandleAnswerFinish(p)

NegSpec == NegInit /\ [][NegNext]_<<vars, clientVars>>

\* nothing is left to run: no timer armed, no operation in flight, no signal
\* in transit, no candidate to report
NegQuiescent ==
  \A p \in Peers :
    /\ ~neg.peer[p].timer
    /\ ~neg.peer[p].isCreatingOffer
    /\ ~neg.peer[p].isHandlingOffer
    /\ ~neg.peer[p].isHandlingAnswer
    /\ neg.peer[p].toGather = 0
    /\ neg.inbox[p] = <<>>

\* peer p's offer is the one answered: p applied q's answer and q applied
\* p's offer
Answered(p) ==
  LET q == Other(p) IN
  /\ neg.peer[p].signalingState = "stable"
  /\ neg.peer[q].signalingState = "stable"
  /\ neg.peer[p].currentLocal = Offer(p)
  /\ neg.peer[q].currentRemote = Offer(p)
  /\ neg.peer[q].currentLocal = Answer(q)
  /\ neg.peer[p].currentRemote = Answer(q)

\* C12: when each peer was creating or holding a local offer at the arrival
\* of the other's offer, the finished negotiation has exactly one of the two
\* offers answered, with the descriptions of the two peers matching.
C12_GlareEndsInOneSession ==
  (NegQuiescent /\ \A p \in Peers : neg.peer[p].heldOffer) =>
     (Answered(1) # Answered(2))

\* ------------------------------------------ chunked transfer (C13 to C16)
\* One sendFiles batch, the data channel and the receiving peer.  A chunk is
\* the slice (file, offset, length) of its file, so that an artifact is
\* byte-identical to the file exactly when its buffer is the file's slices.
TestDataLength == 1024

MaxBlocks == 1

MaxFiles == 2

MaxNameLen == 2

NameChars == {46, 97}        \* '.', 'a'

RECURSIVE NamesOfLen(_)
NamesOfLen(n) ==
  IF n = 0 THEN {<<>>}
  ELSE {Append(w, c) : w \in NamesOfLen(n - 1), c \in NameChars}

FileNames == UNION {NamesOfLen(n) : n \in 1..MaxNameLen}

FileSizes == {k * TestDataLength + d : k \in 0..MaxBlocks, d \in {0, 1}}

\* config.CHUNK_SIZE: any positive size
ChunkSizes == {TestDataLength \div 2, TestDataLength, TestDataLength + 1}

Files == [name : FileNames, size : FileSizes]

Batches == UNION {[1..n -> Files] : n \in 1..MaxFiles}

Msg(type, file, name, size, offset) ==
  [type |-> type, file |-> file, name |-> name, size |-> size,
   offset |-> offset]

MultiFileMeta(total) == Msg("multiFileMeta", 0, <<>>, total, 0)

Metadata(i, f) == Msg("meta", i, f.name, f.size, 0)

Chunk(i, offset, len) == Msg("chunk", i, <<>>, len, offset)

Eof(i) == Msg("EOF", i, <<>>, 0, 0)

Min(a, b) == IF a < b THEN a ELSE b

\* the chunk loop of sendFile: file.slice(offset, offset + CHUNK_SIZE)
RECURSIVE ChunksFrom(_, _, _, _)
ChunksFrom(i, offset, size, chunkSize) ==
  IF offset >= size THEN <<>>
  ELSE LET len == Min(chunkSize, size - offset)
       IN <<Chunk(i, offset, len)>> \o
          ChunksFrom(i, offset + len, size, chunkSize)

\* sendFile: metadata, chunks, EOF
sendFile(i, f, chunkSize) ==
  <<Metadata(i, f)>> \o ChunksFrom(i, 0, f.size, chunkSize) \o <<Eof(i)>>

\* sendFiles: the header, then the files one after the other
RECURSIVE sendFilesFrom(_, _, _)
sendFilesFrom(i, files, chunkSize) ==
  IF i > Len(files) THEN <<>>
  ELSE sendFile(i, files[i], chunkSize) \o
       sendFilesFrom(i + 1, files, chunkSize)

sendFiles(files, chunkSize) ==
  <<MultiFileMeta(Len(files))>> \o sendFilesFrom(1, files, chunkSize)

\* what the channel does to the sequence sent
Faults == {"none", "eofEarly", "eofTwice"}

Transit(sent, fault) ==
  LET n == Len(sent) IN
  IF fault = "eofEarly" /\ sent[n - 1].type = "chunk"
    THEN SubSeq(sent, 1, n - 2) \o <<sent[n], sent[n - 1]>>
  ELSE IF fault = "eofTwice" THEN Append(sent, sent[n])
  ELSE sent

\* resetFileTransferState
NewFileTransferState ==
  [isTransferring |-> FALSE, isFinalizing |-> FALSE,
   currentFileIndex |-> 0, totalFiles |-> 0,
   receivedSize |-> 0, fileSize |-> 0, fileName |-> <<>>,
   buffer |-> <<>>, eofReceived |-> FALSE]

\* an entry of receivedFiles; file is history: the currentFileIndex at which
\* the artifact was made, 0 for a file of an earlier transfer
ReceivedFile(name, size, buffer, file) ==
  [name |-> name, size |-> size, buffer |-> buffer, file |-> file]

RxInit ==
  /\ \E files \in Batches, chunkSize \in ChunkSizes, fault \in Faults,
        earlier \in {<<>>} \cup
                    {<<ReceivedFile(n, 0, <<>>, 0)>> : n \in FileNames} :
       /\ fault # "none" => Len(files) = 1
       /\ rx = [files |-> files, chunkSize |-> chunkSize, fault |-> fault,
                channel |-> Transit(sendFiles(files, chunkSize), fault),
                fts |-> NewFileTransferState,
                timers |-> <<>>,
                receivedFiles |-> earlier,
                calls |-> 0]
  /\ RelayIdle
  /\ tb = Idle /\ neg = Idle /\ sq = Idle /\ wm = Idle

\* ---- timers: the pending setTimeout/setInterval callbacks in arming
\* order; handle marks the one fileTransferState.eofTimeout, respectively
\* fileTransferState.completionCheckInterval, refers to
IsInterval(t) == t.kind = "check"

Arm(ts, kind) ==
  LET same(t) == IsInterval(t) = (kind = "check")
  IN [i \in 1..Len(ts) |->
        IF same(ts[i]) THEN [ts[i] EXCEPT !.handle = FALSE] ELSE ts[i]]
     \o <<[kind |-> kind, handle |-> TRUE]>>

clearTimeout(ts) ==
  LET keep(t) == IsInterval(t) \/ ~t.handle IN SelectSeq(ts, keep)

clearInterval(ts) ==
  LET keep(t) == ~IsInterval(t) \/ ~t.handle IN SelectSeq(ts, keep)

RemoveAt(ts, i) == SubSeq(ts, 1, i - 1) \o SubSeq(ts, i + 1, Len(ts))

\* ---- String.prototype.replace(/\.[^/.]+$/, "") and includes
LastDot(name) ==
  IF \E i \in 1..Len(name) : name[i] = 46
  THEN CHOOSE i \in 1..Len(name) :
         name[i] = 46 /\ \A j \in (i + 1)..Len(name) : name[j] # 46
  ELSE 0

StripExtension(name) ==
  LET d == LastDot(name) IN
  IF d > 0 /\ d < Len(name) THEN SubSeq(name, 1, d - 1) ELSE name

Includes(text, part) ==
  \E i \in 1..(Len(text) - Len(part) + 1) :
    SubSeq(text, i, i + Len(part) - 1) = part

\* a finalizeReceivedFile that never finds the file in receivedFiles
ExistingFile_NoTest(receivedFiles, fileName) == FALSE

\* the existingFile test of finalizeReceivedFile
ExistingFile(receivedFiles, fileName) ==
  \E k \in 1..Len(receivedFiles) :
    \/ receivedFiles[k].name = fileName
    \/ Includes(receivedFiles[k].name, StripExtension(fileName))

CountCall(r) == [r EXCEPT !.calls = Min(@ + 1, 2)]

\* a finalizeReceivedFile that takes 99.9% of the declared size for the file
finalizeReceivedFile_CloseEnough(r0) ==
  LET r == CountCall(r0) IN
  IF r.fts.isFinalizing THEN r
  ELSE IF ExistingFile(r.receivedFiles, r.fts.fileName) THEN r
  ELSE LET cleared == clearInterval(clearTimeout(r.timers)) IN
       IF r.fts.receivedSize * 1000 < r.fts.fileSize * 999
       THEN [r EXCEPT !.fts.isFinalizing = FALSE,
                      !.timers = Arm(cleared, "grace")]
       ELSE [r EXCEPT
              !.timers = cleared,
              !.receivedFiles =
                 Append(@, ReceivedFile(r.fts.fileName, r.fts.receivedSize,
                                        r.fts.buffer,
                                        r.fts.currentFileIndex)),
              !.fts.buffer = <<>>,
              !.fts.eofReceived = FALSE,
              !.fts.isFinalizing = FALSE]

\* finalizeReceivedFile on the receiver state r
finalizeReceivedFile(r0) ==
  LET r == CountCall(r0) IN
  IF r.fts.isFinalizing THEN r
  ELSE IF ExistingFile(r.receivedFiles, r.fts.fileName) THEN r
  ELSE LET cleared == clearInterval(clearTimeout(r.timers)) IN
       IF r.fts.receivedSize < r.fts.fileSize
       THEN [r EXCEPT !.fts.isFinalizing = FALSE,
                      !.timers = Arm(cleared, "grace")]
       ELSE [r EXCEPT
              !.timers = cleared,
              !.receivedFiles =
                 Append(@, ReceivedFile(r.fts.fileName, r.fts.receivedSize,
                                        r.fts.buffer,
                                        r.fts.currentFileIndex)),
              !.fts.buffer = <<>>,
              !.fts.eofReceived = FALSE,
              !.fts.isFinalizing = FALSE]

\* handleDataChannelMessage on the receiver state r
handleDataChannelMessage(r, m) ==
  IF m.type = "chunk" THEN
    IF m.size = TestDataLength THEN r
    ELSE LET got == [r EXCEPT !.fts.buffer = Append(@, m),
                              !.fts.receivedSize = @ + m.size]
         IN IF got.fts.receivedSize = got.fts.fileSize /\ got.fts.eofReceived
            THEN finalizeReceivedFile(got) ELSE got
  ELSE IF m.type = "EOF" THEN
    LET flagged == [r EXCEPT !.fts.eofReceived = TRUE,
                             !.timers = clearTimeout(@)]
        forced  == IF /\ flagged.fts.receivedSize * 100
                           >= flagged.fts.fileSize * 99
                      /\ flagged.fts.isFinalizing
                   THEN [flagged EXCEPT !.fts.isFinalizing = FALSE]
                   ELSE flagged
    IN finalizeReceivedFile(forced)
  ELSE IF m.type = "multiFileMeta" THEN
    [r EXCEPT !.fts.totalFiles = m.size, !.fts.currentFileIndex = 0]
  ELSE IF r.fts.isTransferring /\ r.fts.fileName = m.name THEN r
  ELSE [r EXCEPT !.fts.fileName = m.name,
                 !.fts.fileSize = m.size,
                 !.fts.receivedSize = 0,
                 !.fts.buffer = <<>>,
                 !.fts.currentFileIndex = @ + 1,
                 !.fts.eofReceived = FALSE,
                 !.fts.isFinalizing = FALSE,
                 !.calls = 0,
                 !.timers = Arm(Arm(@, "check"), "eof")]

\* the channel hands its next message to dc.onmessage
Deliver ==
  /\ rx.channel # <<>>
  /\ rx' = [handleDataChannelMessage(rx, Head(rx.channel))
              EXCEPT !.channel = Tail(rx.channel)]
  /\ UNCHANGED <<vars, tb, neg, sq, wm>>

\* timers of one kind run out in arming order
FirstOfKind(ts, i) == \A j \in 1..(i - 1) : ts[j].kind # ts[i].kind

\* the completionCheckInterval callback, when its time tests hold
CompletionCheck ==
  /\ \E i \in 1..Len(rx.timers) : rx.timers[i].kind = "check"
  /\ rx.fts.receivedSize >= rx.fts.fileSize
  /\ ~rx.fts.eofReceived
  /\ ~rx.fts.isFinalizing
  /\ rx' = finalizeReceivedFile(rx)
  /\ UNCHANGED <<vars, tb, neg, sq, wm>>

\* the eofTimeout callback armed by the metadata handler
EofTimeout ==
  \E i \in 1..Len(rx.timers) :
    /\ rx.timers[i].kind = "eof"
    /\ FirstOfKind(rx.timers, i)
    /\ LET r == [rx EXCEPT !.timers = RemoveAt(@, i)] IN
       rx' = IF r.fts.eofReceived THEN r
             ELSE IF r.fts.receivedSize >= r.fts.fileSize
               THEN finalizeReceivedFile(r)
             ELSE [r EXCEPT !.timers = Arm(@, "eof2")]
    /\ UNCHANGED <<vars, tb, neg, sq, wm>>

\* the second eofTimeout callback
SecondEofTimeout ==
  \E i \in 1..Len(rx.timers) :
    /\ rx.timers[i].kind = "eof2"
    /\ FirstOfKind(rx.timers, i)
    /\ LET r == [rx EXCEPT !.timers = RemoveAt(@, i)] IN
       rx' = IF r.fts.receivedSize >= r.fts.fileSize
               THEN finalizeReceivedFile(r)
             ELSE [r EXCEPT !.fts.isFinalizing = FALSE]
    /\ UNCHANGED <<vars, tb, neg, sq, wm>>

\* the callback finalizeReceivedFile arms on an incomplete file
GraceTimeout ==
  \E i \in 1..Len(rx.timers) :
    /\ rx.timers[i].kind = "grace"
    /\ FirstOfKind(rx.timers, i)
    /\ LET r == [rx EXCEPT !.timers = RemoveAt(@, i)] IN
       rx' = IF r.fts.receivedSize * 1000 >= r.fts.fileSize * 999
               THEN finalizeReceivedFile(r)
             ELSE [r EXCEPT !.fts.isFinalizing = FALSE]
    /\ UNCHANGED <<vars, tb, neg, sq, wm>>

RxNext ==
  \/ Deliver
  \/ CompletionCheck
  \/ EofTimeout
  \/ SecondEofTimeout
  \/ GraceTimeout

RxSpec == RxInit /\ [][RxNext]_<<vars, clientVars>>

\* ---- vocabulary of the transfer claims
InOrder == rx.fault = "none"

AllDelivered == rx.channel = <<>>

\* the entries of receivedFiles made while file i was the current one
ArtifactsOf(i) ==
  {k \in 1..Len(rx.receivedFiles) : rx.receivedFiles[k].file = i}

\* the entries of receivedFiles made by this batch
NewReceivedFiles ==
  LET new(f) == f.file # 0 IN SelectSeq(rx.receivedFiles, new)

NothingReceivedEarlier == \A k \in 1..Len(rx.receivedFiles) :
                             rx.receivedFiles[k].file # 0

SentChunks(i) == ChunksFrom(i, 0, rx.files[i].size, rx.chunkSize)

\* the artifact holds the sender's chunks of file i, in order
IsTheFile(a, i) ==
  /\ a.name = rx.files[i].name
  /\ a.size = rx.files[i].size
  /\ a.buffer = SentChunks(i)

HasTestSizedChunk ==
  \E i \in 1..Len(rx.files) : \E k \in 1..Len(SentChunks(i)) :
    SentChunks(i)[k].size = TestDataLength

\* C13: a single file sent over a channel that delivers once and in order,
\* to a receiver with no earlier files: once everything is delivered the
\* receiver holds an artifact that is the concatenation of the sender's
\* chunks, whatever the file size and the chunk size.
C13_ArtifactIsTheFile ==
  (InOrder /\ AllDelivered /\ Len(rx.files) = 1 /\ NothingReceivedEarlier) =>
     \E k \in ArtifactsOf(1) : IsTheFile(rx.receivedFiles[k], 1)

C15_OneArtifactPerFileInOrder ==
  (InOrder /\ ~HasTestSizedChunk) =>
     /\ (rx.channel # <<>> /\ Head(rx.channel).type \in {"chunk", "EOF"}) =>
           rx.fts.currentFileIndex = Head(rx.channel).file
     /\ AllDelivered =>
           /\ Len(NewReceivedFiles) = Len(rx.files)
           /\ \A i \in 1..Len(rx.files) :
                 /\ NewReceivedFiles[i].file = i
                 /\ IsTheFile(NewReceivedFiles[i], i)

\* the EOF of the file overtook its last chunk
EofEarly == rx.fault = "eofEarly" /\ rx.files[1].size > 0

\* C16: when the EOF arrives before the last chunk, no artifact exists while
\* the chunk is still missing, and the arrival of the chunk that makes
\* receivedSize equal to the declared size finalizes the file.
C16_FinalizedOnDelayedChunk ==
  EofEarly =>
     /\ (Len(rx.channel) = 1 /\ rx.fts.receivedSize < rx.fts.fileSize) =>
           ArtifactsOf(1) = {}
     /\ (AllDelivered /\ rx.fts.receivedSize = rx.fts.fileSize) =>
           ArtifactsOf(1) # {}

\* --------------------------------------- the send queue (C17 to C20)
\* One WebRTCManager as sender: its data channel, sendQueue, isSending and
\* the processQueue invocations that are suspended at an await.
CHUNK_SIZE == 256 * 1024

MAX_BUFFERED_AMOUNT == 8 * 1024 * 1024

\* sendData calls accepted in one run, and close() calls
MaxItems == 3

MaxCloses == 1

\* dc.bufferedAmount > MAX_BUFFERED_AMOUNT * tenths / 10
Above(b, tenths) == b * 10 > MAX_BUFFERED_AMOUNT * tenths

\* the amounts a draining channel passes through on its way down
DrainLevels ==
  {0, (MAX_BUFFERED_AMOUNT * 3) \div 10, (MAX_BUFFERED_AMOUNT * 5) \div 10,
   (MAX_BUFFERED_AMOUNT * 6) \div 10}

Item(id, size) == [id |-> id, size |-> size]

NoSender == [pc |-> "off", offset |-> 0, size |-> 0]

\* a WebRTCManager whose channel is open with b bytes outstanding
OpenManager(b, sender) ==
  [dc |-> "open", epoch |-> 1, bufferedAmount |-> b,
   sendQueue |-> <<>>, isSending |-> FALSE,
   loops |-> <<>>,               \* processQueue invocations at an await
   pending |-> {}, resolved |-> {}, rejected |-> {},   \* sendData promises
   sent |-> <<>>,                \* history: what dc.send was given
   accepted |-> 0,               \* history: sendData calls queued
   closes |-> 0,                 \* history: close() calls
   atClose |-> {},               \* history: the promises pending at close()
   lowEvent |-> FALSE,           \* a bufferedamountlow event is due
   sender |-> sender,
   paused |-> FALSE,             \* history: a high-water wait was entered
   early |-> FALSE,              \* history: a high-water wait ended above
                                 \* its target
   sentAbove |-> FALSE,          \* history: dc.send ran above 0.9 max
   fastDrain |-> FALSE]          \* history: the channel drained outside a
                                 \* high-water wait

Resolve(s, id) ==
  IF id \in s.pending
  THEN [s EXCEPT !.pending = @ \ {id}, !.resolved = @ \cup {id}] ELSE s

Reject(s, id) ==
  IF id \in s.pending
  THEN [s EXCEPT !.pending = @ \ {id}, !.rejected = @ \cup {id}] ELSE s

\* Array.prototype.shift
Shift(q) == IF q = <<>> THEN q ELSE Tail(q)

Suspend(s, pc, it, isLast) ==
  [s EXCEPT !.loops = Append(@, [pc |-> pc, item |-> it, isLastItem |-> isLast])]

\* processQueue from the head of its while loop (LoopTop) and from the
\* second channel test after the buffer wait (AfterWait), run up to the next
\* await or to the return
RECURSIVE LoopTop(_), AfterWait(_, _, _)
LoopTop(s) ==
  IF s.sendQueue = <<>> THEN [s EXCEPT !.isSending = FALSE]
  ELSE LET it   == Head(s.sendQueue)
           isLast == Len(s.sendQueue) = 1
       IN IF s.dc # "open"
            THEN LoopTop(Reject([s EXCEPT !.sendQueue = Shift(@)], it.id))
          ELSE IF Above(s.bufferedAmount, 9)
            THEN Suspend([s EXCEPT !.paused = TRUE], "wait", it, isLast)
          ELSE AfterWait(s, it, isLast)

AfterWait(s, it, isLast) ==
  IF s.dc # "open"
    THEN LoopTop(Reject([s EXCEPT !.sendQueue = Shift(@)], it.id))
  ELSE LET given ==
             [s EXCEPT !.sent = Append(@, [id |-> it.id, epoch |-> s.epoch]),
                       !.sentAbove = @ \/ Above(s.bufferedAmount, 9),
                       !.bufferedAmount = @ + it.size,
                       !.sendQueue = Shift(@)]
           done == Resolve(given, it.id)
       IN IF isLast /\ done.bufferedAmount > 0
            THEN Suspend(done, "flush", it, isLast)
          ELSE LoopTop(done)

\* processQueue from its call
processQueue(s) ==
  IF s.isSending \/ s.sendQueue = <<>> THEN s
  ELSE IF s.dc = "null" THEN [s EXCEPT !.isSending = FALSE]
  ELSE LoopTop([s EXCEPT !.isSending = TRUE])

\* a sendData that starts a drain loop without looking at isSending
sendData_AlwaysStarts(s, it) ==
  LoopTop([s EXCEPT !.sendQueue = Append(@, it),
                    !.pending = @ \cup {it.id},
                    !.accepted = @ + 1,
                    !.isSending = TRUE])

\* sendData of an item, on a channel that is there and open
sendData(s, it) ==
  LET queued == [s EXCEPT !.sendQueue = Append(@, it),
                          !.pending = @ \cup {it.id},
                          !.accepted = @ + 1]
  IN IF ~queued.isSending THEN processQueue(queued) ELSE queued

SqInit ==
  /\ \E b \in {0, MAX_BUFFERED_AMOUNT} : sq = OpenManager(b, NoSender)
  /\ RelayIdle
  /\ tb = Idle /\ neg = Idle /\ rx = Idle /\ wm = Idle

\* some caller's sendData(data)
SendData ==
  /\ sq.sender.pc = "off"
  /\ sq.accepted < MaxItems
  /\ sq.dc = "open"
  /\ sq' = sendData(sq, Item(sq.accepted + 1, CHUNK_SIZE))
  /\ UNCHANGED <<vars, tb, neg, rx, wm>>

\* a buffer wait that gives up and goes on to send
WaitPoll_TimesOut ==
  \E i \in 1..Len(sq.loops) :
    /\ sq.loops[i].pc = "wait"
    /\ sq' = AfterWait([sq EXCEPT !.loops = RemoveAt(@, i)],
                       sq.loops[i].item, sq.loops[i].isLastItem)
    /\ UNCHANGED <<vars, tb, neg, rx, wm>>

\* the checkBuffer poll of a loop in its buffer wait finds the channel gone
\* or the amount at the target
WaitPoll ==
  \E i \in 1..Len(sq.loops) :
    LET l      == sq.loops[i]
        target == IF l.isLastItem THEN 3 ELSE 6
        rest   == [sq EXCEPT !.loops = RemoveAt(@, i)]
    IN /\ l.pc = "wait"
       /\ sq.dc = "null" \/ ~Above(sq.bufferedAmount, target)
       /\ sq' = AfterWait(rest, l.item, l.isLastItem)
       /\ UNCHANGED <<vars, tb, neg, rx, wm>>

\* a loop in its flush wait goes on: the channel is gone or empty, or the
\* 5 seconds are over
FlushPoll ==
  \E i \in 1..Len(sq.loops) :
    /\ sq.loops[i].pc = "flush"
    /\ sq' = LoopTop([sq EXCEPT !.loops = RemoveAt(@, i)])
    /\ UNCHANGED <<vars, tb, neg, rx, wm>>

InHighWaterWait(s) ==
  \/ s.sender.pc = "bwait"
  \/ \E i \in 1..Len(s.loops) : s.loops[i].pc = "wait"

\* the channel transmits: bufferedAmount falls
Drain ==
  /\ sq.dc = "open"
  /\ \E b \in DrainLevels :
       /\ b < sq.bufferedAmount
       /\ sq' = [sq EXCEPT
            !.bufferedAmount = b,
            !.lowEvent = @ \/ (Above(sq.bufferedAmount, 3) /\ ~Above(b, 3)),
            !.fastDrain = @ \/ ~InHighWaterWait(sq)]
  /\ UNCHANGED <<vars, tb, neg, rx, wm>>

\* dc.onbufferedamountlow
BufferedAmountLow ==
  /\ sq.lowEvent
  /\ sq.dc = "open"
  /\ LET s == [sq EXCEPT !.lowEvent = FALSE] IN
     sq' = IF s.sendQueue # <<>> /\ ~s.isSending THEN processQueue(s) ELSE s
  /\ UNCHANGED <<vars, tb, neg, rx, wm>>

\* close()
close(s) ==
  [s EXCEPT !.dc = "null", !.bufferedAmount = 0, !.lowEvent = FALSE,
            !.sendQueue = <<>>, !.isSending = FALSE,
            !.atClose = s.pending,
            !.closes = @ + 1]

Close ==
  /\ sq.closes < MaxCloses
  /\ sq' = close(sq)
  /\ UNCHANGED <<vars, tb, neg, rx, wm>>

\* initializePeerConnection(true) after a close: a new channel
Initialize ==
  /\ sq.dc = "null"
  /\ sq' = [sq EXCEPT !.dc = "connecting", !.epoch = @ + 1]
  /\ UNCHANGED <<vars, tb, neg, rx, wm>>

\* the new channel opens
Open ==
  /\ sq.dc = "connecting"
  /\ sq' = [sq EXCEPT !.dc = "open"]
  /\ UNCHANGED <<vars, tb, neg, rx, wm>>

SqNext ==
  \/ SendData
  \/ WaitPoll
  \/ FlushPoll
  \/ Drain
  \/ BufferedAmountLow
  \/ Close
  \/ Initialize
  \/ Open

SqSpec == SqInit /\ [][SqNext]_<<vars, clientVars>>

\* ---- the chunk loop of sendFile on top of the queue
MaxChunks == 34

ChunkAt(sender) ==
  Item(sender.offset \div CHUNK_SIZE + 1,
       Min(CHUNK_SIZE, sender.size - sender.offset))

BpInit ==
  /\ \E n \in 1..MaxChunks :
       sq = OpenManager(0, [pc |-> "check", offset |-> 0,
                            size |-> n * CHUNK_SIZE])
  /\ RelayIdle
  /\ tb = Idle /\ neg = Idle /\ rx = Idle /\ wm = Idle

\* `await this.webrtcManager.sendData(arrayBuffer)` up to its suspension
AwaitSendData(s) ==
  IF s.dc # "open" THEN [s EXCEPT !.sender.pc = "failed"]
  ELSE [sendData(s, ChunkAt(s.sender)) EXCEPT !.sender.pc = "await"]

\* one turn of the chunk loop up to its first await: the buffer test, then
\* the wait or the sendData
SendChunk ==
  /\ sq.sender.pc = "check"
  /\ sq' = IF sq.dc # "null" /\ Above(sq.bufferedAmount, 7)
           THEN [sq EXCEPT !.sender.pc = "bwait", !.paused = TRUE]
           ELSE AwaitSendData(sq)
  /\ UNCHANGED <<vars, tb, neg, rx, wm>>

\* the 50 ms poll of sendFile's wait ends it: the amount is at half the
\* maximum, or the 3 seconds are over
BufferWaitPoll ==
  /\ sq.sender.pc = "bwait"
  /\ sq' = AwaitSendData([sq EXCEPT !.early = @ \/ Above(sq.bufferedAmount, 5)])
  /\ UNCHANGED <<vars, tb, neg, rx, wm>>

\* the sendData promise of the chunk is settled: next turn, or the end
ChunkSent ==
  LET it == ChunkAt(sq.sender) IN
  /\ sq.sender.pc = "await"
  /\ it.id \in sq.resolved \cup sq.rejected
  /\ sq' = IF it.id \in sq.rejected THEN [sq EXCEPT !.sender.pc = "failed"]
           ELSE [sq EXCEPT
                  !.sender.offset = @ + it.size,
                  !.sender.pc = IF sq.sender.offset + it.size < sq.sender.size
                                THEN "check" ELSE "done"]
  /\ UNCHANGED <<vars, tb, neg, rx, wm>>

BpNext ==
  \/ SendChunk
  \/ BufferWaitPoll
  \/ ChunkSent
  \/ WaitPoll
  \/ FlushPoll
  \/ Drain
  \/ BufferedAmountLow

BpSpec == BpInit /\ [][BpNext]_<<vars, clientVars>>

\* ---- vocabulary of the send-queue claims
SentIds == [k \in 1..Len(sq.sent) |-> sq.sent[k].id]

QueuedIds == [k \in 1..Len(sq.sendQueue) |-> sq.sendQueue[k].id]

\* the ids lo..hi as a sequence
Ids(lo, hi) == [k \in 1..(hi - lo + 1) |-> lo + k - 1]

C18_OneDrainLoop == Len(sq.loops) <= 1

\* the send of a file larger than the maximum is complete, over a channel
\* that drained only during high-water waits
SlowSendDone ==
  /\ sq.sender.pc = "done"
  /\ sq.sender.size > MAX_BUFFERED_AMOUNT
  /\ ~sq.fastDrain

C20_CloseRejectsPending ==
  (sq.closes > 0 /\ sq.loops = <<>> /\ sq.dc = "null") =>
     /\ sq.atClose \cap sq.pending = {}
     /\ sq.sendQueue = <<>>

\* ------------------------ one negotiator and its operations (C21 to C30)
\* One WebRTCManager with the coordinator of src/server.js calling it: the
\* timers of startFileTransfer, handleSignal, disconnect and
\* connectToDeviceById.  An operation is followed from await to await; a
\* promise of a connection object that has been closed never settles.
MaxPcs == 3

MaxOps == 2

MaxIce == 2

MaxFaults == 1

MaxWmCloses == 1

\* the five callback bindings the coordinator makes after construction
Coordinator == "coordinator"

OpKinds == {"createOffer", "handleOffer", "handleAnswer", "completeRecreation"}

NoSnapshot ==
  [pc |-> 0, fresh |-> FALSE, isSender |-> FALSE, sendQueue |-> <<>>,
   iceCandidateQueue |-> <<>>, callbacks |-> "none"]

\* a WebRTCManager after its constructor, with the coordinator's callbacks
NewManager ==
  [pc |-> 0, dc |-> 0, isSender |-> FALSE,
   sendQueue |-> <<>>, isSending |-> FALSE,
   iceCandidateQueue |-> <<>>, remoteDescriptionSet |-> FALSE,
   isCreatingOffer |-> FALSE, isHandlingOffer |-> FALSE,
   isHandlingAnswer |-> FALSE,
   connectionState |-> "disconnected",
   callbacks |-> Coordinator,
   \* the RTCPeerConnection this.pc refers to
   signalingState |-> "closed",
   pendingRemote |-> FALSE, currentRemote |-> FALSE,
   applied |-> <<>>,          \* candidates it has taken, in order
   made |-> 0,                \* connection objects made so far
   dead |-> {},               \* connection objects that were closed
   ops |-> <<>>,              \* the async operations called so far
   received |-> 0,            \* candidates handleSignal was given
   faults |-> 0,              \* SDP failures the connection has produced
   closes |-> 0,              \* close() calls of the coordinator
   busyAtClose |-> FALSE,     \* history: close() ran on a busy manager
   stray |-> FALSE]           \* history: a candidate was handed to a
                              \* connection without a remote description

\* an operation at its call
NewOp(w, kind, offer) ==
  [kind |-> kind, at |-> "call", pc |-> 0, offer |-> offer,
   retry |-> FALSE,           \* inside the retry after forceReset
   descFrom |-> 0,            \* the connection that made the description
   cand |-> 0,                \* the candidate being added
   role |-> w.isSender, cbs |-> w.callbacks, madeAt |-> w.made,
   result |-> "pending", error |-> "none",
   attempts |-> 0,            \* history: attempts on the connection
   failures |-> 0,            \* history: attempts that failed
   resets |-> 0,              \* history: forceReset calls
   touched |-> FALSE,         \* history: it operated on the connection
   overlapped |-> \E j \in 1..Len(w.ops) :
                     w.ops[j].kind = kind /\ w.ops[j].at # "done",
   sigAtCall |-> IF w.pc = 0 THEN "none" ELSE w.signalingState,
   changed |-> FALSE,         \* history: handleAnswer changed descriptions,
                              \* remoteDescriptionSet or the candidate queue
   queueAtReturn |-> <<>>,    \* history: iceCandidateQueue at its return
   after |-> NoSnapshot]      \* history: the manager when its reset was over

HasRemote(w) == w.pendingRemote \/ w.currentRemote

\* what handleAnswer's claim is about
Descriptions(w) ==
  <<w.pc, w.signalingState, w.pendingRemote, w.currentRemote,
    w.remoteDescriptionSet, w.iceCandidateQueue>>

Snapshot(w, o) ==
  [pc |-> w.pc, fresh |-> w.pc > o.madeAt, isSender |-> w.isSender,
   sendQueue |-> w.sendQueue, iceCandidateQueue |-> w.iceCandidateQueue,
   callbacks |-> w.callbacks]

\* initializePeerConnection(isSender)
WmInitializePeerConnection(w, isSender) ==
  IF w.connectionState \in {"connecting", "connected"} THEN w
  ELSE [w EXCEPT !.connectionState = "connecting",
                 !.isSender = isSender,
                 !.made = @ + 1,
                 !.pc = w.made + 1,
                 !.signalingState = "stable",
                 !.pendingRemote = FALSE, !.currentRemote = FALSE,
                 !.applied = <<>>,
                 !.dc = IF isSender THEN w.made + 1 ELSE @]

\* pc.close() and dc.close() with the two references set to null
CloseObjects(w) ==
  [w EXCEPT !.dead = IF w.pc # 0 THEN @ \cup {w.pc} ELSE @,
            !.pc = 0, !.dc = 0,
            !.signalingState = "closed",
            !.pendingRemote = FALSE, !.currentRemote = FALSE,
            !.applied = <<>>]

\* a close() that leaves the offer-handling flag alone
WmClose_KeepsFlag(w) ==
  [CloseObjects(w) EXCEPT
     !.sendQueue = <<>>, !.isSending = FALSE,
     !.iceCandidateQueue = <<>>, !.remoteDescriptionSet = FALSE,
     !.isCreatingOffer = FALSE, !.isHandlingAnswer = FALSE,
     !.connectionState = "disconnected"]

\* close()
WmClose(w) ==
  [CloseObjects(w) EXCEPT
     !.sendQueue = <<>>, !.isSending = FALSE,
     !.iceCandidateQueue = <<>>, !.remoteDescriptionSet = FALSE,
     !.isCreatingOffer = FALSE, !.isHandlingOffer = FALSE,
     !.isHandlingAnswer = FALSE,
     !.connectionState = "disconnected"]

\* forceResetConnectionState()
forceResetConnectionState(w) ==
  [w EXCEPT !.connectionState = "disconnected",
            !.isCreatingOffer = FALSE, !.isHandlingOffer = FALSE,
            !.isHandlingAnswer = FALSE]

\* the `finally` of an operation
Finally(w, i) ==
  LET k == w.ops[i].kind IN
  [w EXCEPT
     !.isCreatingOffer = IF k = "createOffer" THEN FALSE ELSE @,
     !.isHandlingOffer = IF k = "handleOffer" THEN FALSE ELSE @,
     !.isHandlingAnswer = IF k = "handleAnswer" THEN FALSE ELSE @,
     !.ops[i].at = "done",
     !.ops[i].pc = 0, !.ops[i].descFrom = 0, !.ops[i].cand = 0,
     !.ops[i].queueAtReturn = w.iceCandidateQueue]

\* the operation returns res
Return(w, i, res) == [Finally(w, i) EXCEPT !.ops[i].result = res]

\* a createOffer whose error path leaves isCreatingOffer set
Throw_KeepsFlag(w, i, err) ==
  [w EXCEPT !.ops[i].at = "done", !.ops[i].result = "threw",
            !.ops[i].error = err]

\* the operation rejects with err; the timer callbacks of startFileTransfer
\* answer a rejected createOffer with forceResetConnectionState
Throw(w, i, err) ==
  LET thrown == [Finally(w, i) EXCEPT !.ops[i].result = "threw",
                                      !.ops[i].error = err]
  IN IF w.ops[i].kind = "createOffer"
       THEN forceResetConnectionState(thrown) ELSE thrown

\* forceReset up to its 200 ms wait
forceReset(w, i) ==
  LET closed == WmClose(w) IN
  [closed EXCEPT !.iceCandidateQueue = <<>>,
                 !.remoteDescriptionSet = FALSE,
                 !.ops[i].at = "forceResetWait",
                 !.ops[i].role = w.isSender,
                 !.ops[i].cbs = w.callbacks,
                 !.ops[i].madeAt = w.made,
                 !.ops[i].resets = @ + 1]

\* a catch block that resets and retries on every SDP error
Catch_RetriesAgain(w, i, err) ==
  LET failed == [w EXCEPT !.ops[i].failures = @ + 1] IN
  IF err = "sdp" /\ w.ops[i].kind \in {"createOffer", "handleOffer"}
    THEN forceReset(failed, i)
  ELSE Throw(failed, i, err)

\* the catch blocks: createOffer and handleOffer answer an SDP error of the
\* first attempt with forceReset, every other error is thrown on
Catch(w, i, err) ==
  LET failed == [w EXCEPT !.ops[i].failures = @ + 1] IN
  IF /\ err = "sdp"
     /\ w.ops[i].kind \in {"createOffer", "handleOffer"}
     /\ ~w.ops[i].retry
    THEN forceReset(failed, i)
  ELSE Throw(failed, i, err)

\* `await this.pc.createOffer()` is reached
StartOffer(w, i) ==
  [w EXCEPT !.ops[i].at = "createOffer", !.ops[i].pc = w.pc,
            !.ops[i].attempts = @ + 1, !.ops[i].touched = TRUE]

\* `await this.pc.setRemoteDescription(offer)` is reached
SetRemoteOffer(w, i) ==
  IF w.pc = 0 THEN Catch(w, i, "type")
  ELSE [w EXCEPT !.ops[i].at = "setRemoteOffer", !.ops[i].pc = w.pc,
                 !.ops[i].attempts = @ + 1, !.ops[i].touched = TRUE]

\* `await this.pc.createAnswer()` is reached
CreateAnswer(w, i) ==
  IF w.pc = 0 THEN Catch(w, i, "type")
  ELSE [w EXCEPT !.ops[i].at = "createAnswer", !.ops[i].pc = w.pc]

\* processIceCandidateQueue is over
AfterDrain(w, i) ==
  IF w.ops[i].kind = "handleOffer" THEN CreateAnswer(w, i)
  ELSE Return(w, i, "ok")

\* processIceCandidateQueue up to its next await
RECURSIVE WmProcessIceCandidateQueue(_, _)
WmProcessIceCandidateQueue(w, i) ==
  IF w.iceCandidateQueue = <<>> THEN AfterDrain(w, i)
  ELSE LET c     == Head(w.iceCandidateQueue)
           taken == [w EXCEPT !.iceCandidateQueue = Tail(@)]
       IN IF w.pc = 0 THEN WmProcessIceCandidateQueue(taken, i)
          ELSE [taken EXCEPT !.ops[i].at = "drain", !.ops[i].pc = w.pc,
                             !.ops[i].cand = c]

\* createOffer and handleOffer after their `await this.resetConnection()`
AfterResetConnection(w, i) ==
  IF w.ops[i].kind = "createOffer"
    THEN IF w.pc = 0 THEN Catch(w, i, "type")
         ELSE IF w.signalingState = "stable" THEN StartOffer(w, i)
         ELSE Return(w, i, "undefined")
  ELSE IF w.isCreatingOffer THEN [w EXCEPT !.ops[i].at = "wait1000"]
  ELSE SetRemoteOffer(w, i)

\* recreateConnection up to its 100 ms wait
recreateConnection(w, i) ==
  [WmClose(w) EXCEPT !.ops[i].at = "recreateWait",
                     !.ops[i].role = w.isSender,
                     !.ops[i].cbs = w.callbacks]

\* resetConnection from its call or from the return of a rollback
WmResetConnection(w, i) ==
  IF w.pc = 0 THEN recreateConnection(w, i)
  ELSE IF w.signalingState \in {"have-local-offer", "have-remote-offer"}
    THEN [w EXCEPT !.ops[i].at = "rollback", !.ops[i].pc = w.pc,
                   !.ops[i].touched = TRUE]
  ELSE AfterResetConnection(w, i)

\* createOffer() from its call to its first await or its return
createOffer(w) ==
  LET i      == Len(w.ops) + 1
      called == [w EXCEPT !.ops = Append(@, NewOp(w, "createOffer", "none"))]
      own    == [called EXCEPT !.isCreatingOffer = TRUE]
      made   == [WmInitializePeerConnection(own, own.isSender)
                   EXCEPT !.ops[i].touched = TRUE]
  IN IF w.isCreatingOffer
       THEN [called EXCEPT !.ops[i].at = "done",
                           !.ops[i].result = "undefined"]
     ELSE IF w.pc = 0
       THEN IF made.pc = 0 THEN Catch(made, i, "type")
            ELSE StartOffer(made, i)
     ELSE IF w.signalingState # "stable" THEN WmResetConnection(own, i)
     ELSE StartOffer(own, i)

\* handleOffer(offer) from its call to its first await or its throw
handleOffer(w, offer) ==
  LET i      == Len(w.ops) + 1
      called == [w EXCEPT !.ops = Append(@, NewOp(w, "handleOffer", offer))]
      own    == [called EXCEPT !.isHandlingOffer = TRUE]
      made   == [WmInitializePeerConnection(own, own.isSender)
                   EXCEPT !.ops[i].touched = TRUE]
  IN IF w.isHandlingOffer
       THEN [called EXCEPT !.ops[i].at = "done",
                           !.ops[i].result = "threw",
                           !.ops[i].error = "already"]
     ELSE IF w.pc = 0 THEN AfterResetConnection(made, i)
     ELSE IF w.signalingState # "stable" THEN WmResetConnection(own, i)
     ELSE AfterResetConnection(own, i)

\* a handleAnswer that does not look at the signaling state
handleAnswer_NoStateTest(w) ==
  LET i      == Len(w.ops) + 1
      called == [w EXCEPT !.ops = Append(@, NewOp(w, "handleAnswer", "none"))]
      own    == [called EXCEPT !.isHandlingAnswer = TRUE]
  IN IF w.pc = 0 THEN Throw(own, i, "state")
     ELSE [own EXCEPT !.ops[i].at = "setRemoteAnswer", !.ops[i].pc = w.pc,
                      !.ops[i].touched = TRUE]

\* handleAnswer(answer) from its call to its first await or its throw
handleAnswer(w) ==
  LET i      == Len(w.ops) + 1
      called == [w EXCEPT !.ops = Append(@, NewOp(w, "handleAnswer", "none"))]
      own    == [called EXCEPT !.isHandlingAnswer = TRUE]
      out    ==
        IF w.isHandlingAnswer
          THEN [called EXCEPT !.ops[i].at = "done",
                              !.ops[i].result = "threw",
                              !.ops[i].error = "already"]
        ELSE IF w.pc = 0 \/ w.signalingState # "have-local-offer"
          THEN Throw(own, i, "state")
        ELSE [own EXCEPT !.ops[i].at = "setRemoteAnswer",
                         !.ops[i].pc = w.pc, !.ops[i].touched = TRUE]
  IN [out EXCEPT !.ops[i].changed = Descriptions(out) # Descriptions(w)]

\* addIceCandidate(candidate)
WmAddIceCandidate(w, c) ==
  IF w.pc = 0 THEN w
  ELSE IF ~w.remoteDescriptionSet
    THEN [w EXCEPT !.iceCandidateQueue = Append(@, c)]
  ELSE IF HasRemote(w) THEN [w EXCEPT !.applied = Append(@, c)]
  ELSE [w EXCEPT !.stray = TRUE]

\* completeRecreation() up to its 300 ms wait
completeRecreation(w) ==
  LET i      == Len(w.ops) + 1
      called == [w EXCEPT
                   !.ops = Append(@, NewOp(w, "completeRecreation", "none"))]
  IN [CloseObjects(called) EXCEPT
        !.sendQueue = <<>>, !.isSending = FALSE,
        !.iceCandidateQueue = <<>>, !.remoteDescriptionSet = FALSE,
        !.ops[i].at = "recreationWait", !.ops[i].touched = TRUE]

\* a manager left by an earlier round in which createOffer made the
\* connection and set its offer
OfferedManager ==
  [WmInitializePeerConnection(NewManager, FALSE)
     EXCEPT !.signalingState = "have-local-offer"]

WmStart ==
  /\ wm \in {NewManager, OfferedManager}
  /\ RelayIdle
  /\ tb = Idle /\ neg = Idle /\ rx = Idle /\ sq = Idle

\* ---- the coordinator
\* a timer callback of startFileTransfer calls createOffer
TimerCreateOffer ==
  /\ Len(wm.ops) < MaxOps
  /\ wm' = createOffer(wm)
  /\ wm'.made <= MaxPcs
  /\ UNCHANGED <<vars, tb, neg, rx, sq>>

\* isValidState()
isValidState(w) == w.pc # 0 /\ w.signalingState # "closed"

\* handleSignal(from, data) up to the first await of the operation it calls
WmHandleSignal ==
  /\ ~(wm.isCreatingOffer \/ wm.isHandlingOffer \/ wm.isHandlingAnswer)
  /\ LET valid == IF isValidState(wm) THEN wm
                  ELSE WmInitializePeerConnection(wm, TRUE)
     IN \/ /\ Len(wm.ops) < MaxOps
           /\ \/ \E offer \in {"good", "bad"} : wm' = handleOffer(valid, offer)
              \/ wm' = handleAnswer(valid)
        \/ /\ wm.received < MaxIce
           /\ wm' = WmAddIceCandidate(
                      [valid EXCEPT !.received = @ + 1], wm.received + 1)
  /\ wm'.made <= MaxPcs
  /\ UNCHANGED <<vars, tb, neg, rx, sq>>

\* disconnect(), or the close() at the head of startFileTransfer
CoordinatorClose ==
  /\ wm.closes < MaxWmCloses
  /\ wm' = [WmClose(wm) EXCEPT
              !.closes = @ + 1,
              !.busyAtClose =
                 /\ wm.pc # 0
                 /\ wm.iceCandidateQueue # <<>> \/ wm.sendQueue # <<>>
                 /\ \/ wm.isCreatingOffer \/ wm.isHandlingOffer
                    \/ wm.isHandlingAnswer]
  /\ UNCHANGED <<vars, tb, neg, rx, sq>>

\* the 100 ms timer of startFileTransfer
StartFileTransferTimer ==
  /\ \E isSender \in BOOLEAN :
       wm' = WmInitializePeerConnection(wm, isSender)
  /\ wm'.made # wm.made
  /\ wm'.made <= MaxPcs
  /\ UNCHANGED <<vars, tb, neg, rx, sq>>

\* connectToDeviceById
ConnectToDeviceById ==
  /\ Len(wm.ops) < MaxOps
  /\ wm.pc # 0
  /\ wm' = completeRecreation(wm)
  /\ UNCHANGED <<vars, tb, neg, rx, sq>>

\* the negotiated connection comes up: onconnectionstatechange, and the
\* channel opens (ondatachannel on the receiver, dc.onopen)
Connected ==
  /\ wm.pc # 0
  /\ wm.signalingState = "stable" /\ wm.currentRemote
  /\ wm.connectionState = "connecting"
  /\ wm' = [wm EXCEPT !.connectionState = "connected", !.dc = wm.pc]
  /\ UNCHANGED <<vars, tb, neg, rx, sq>>

\* a sendData on the open channel whose drain loop waits for the buffer
QueueData ==
  /\ wm.dc # 0 /\ wm.connectionState = "connected"
  /\ ~wm.isSending
  /\ wm' = [wm EXCEPT !.sendQueue = Append(@, 1), !.isSending = TRUE]
  /\ UNCHANGED <<vars, tb, neg, rx, sq>>

\* ---- the operations go on
\* a promise of connection object o.pc can settle
Settles(w, o) == o.pc \notin w.dead

\* a rollback of resetConnection settles
RollbackSettles(i) ==
  LET o == wm.ops[i] IN
  /\ o.at = "rollback" /\ Settles(wm, o)
  /\ wm' =
       IF o.pc # wm.pc THEN WmResetConnection(wm, i)
       ELSE IF wm.signalingState = "stable" THEN recreateConnection(wm, i)
       ELSE WmResetConnection(
              [wm EXCEPT !.signalingState = "stable",
                         !.pendingRemote = FALSE], i)
  /\ UNCHANGED <<vars, tb, neg, rx, sq>>

\* the waits of recreateConnection, forceReset and completeRecreation are
\* over: initializePeerConnection, and the callbacks are put back
WaitOver(i) ==
  LET o      == wm.ops[i]
      made   == [WmInitializePeerConnection(wm, o.role)
                   EXCEPT !.callbacks = o.cbs]
      snap   == [made EXCEPT !.ops[i].after = Snapshot(made, o)]
      second == [snap EXCEPT !.ops[i].retry = TRUE]
  IN
  /\ o.at \in {"recreateWait", "forceResetWait", "recreationWait"}
  /\ wm' =
       IF o.at = "recreateWait" THEN AfterResetConnection(made, i)
       ELSE IF o.at = "recreationWait" THEN Return(snap, i, "ok")
       ELSE IF o.kind = "handleOffer" THEN SetRemoteOffer(second, i)
       ELSE IF second.pc = 0 THEN Catch(second, i, "type")
       ELSE IF second.signalingState = "stable" THEN StartOffer(second, i)
       ELSE Return(second, i, "undefined")
  /\ wm'.made <= MaxPcs
  /\ UNCHANGED <<vars, tb, neg, rx, sq>>

\* handleOffer's 1000 ms wait for an offer creation is over
OfferWaitOver(i) ==
  /\ wm.ops[i].at = "wait1000"
  /\ wm' = IF wm.isCreatingOffer THEN Catch(wm, i, "creating")
           ELSE SetRemoteOffer(wm, i)
  /\ UNCHANGED <<vars, tb, neg, rx, sq>>

\* pc.createOffer() settles, then setLocalDescription(offer) is called
OfferCreated(i) ==
  LET o == wm.ops[i] IN
  /\ o.at = "createOffer" /\ Settles(wm, o)
  /\ wm' = IF wm.pc = 0 THEN Catch(wm, i, "type")
           ELSE [wm EXCEPT !.ops[i].at = "setLocalOffer",
                           !.ops[i].pc = wm.pc, !.ops[i].descFrom = o.pc]
  /\ UNCHANGED <<vars, tb, neg, rx, sq>>

\* the connection refuses a description with one of the SDP errors
SdpError(i) ==
  LET o == wm.ops[i] IN
  /\ o.at \in {"setLocalOffer", "setRemoteOffer", "setLocalAnswer"}
  /\ Settles(wm, o)
  /\ wm.faults < MaxFaults
  /\ wm' = Catch([wm EXCEPT !.faults = @ + 1], i, "sdp")
  /\ UNCHANGED <<vars, tb, neg, rx, sq>>

\* setLocalDescription(offer) settles
LocalOfferSet(i) ==
  LET o == wm.ops[i] IN
  /\ o.at = "setLocalOffer" /\ Settles(wm, o)
  /\ wm' =
       IF o.pc # wm.pc THEN Return(wm, i, "offer")
       ELSE IF o.descFrom # o.pc THEN Catch(wm, i, "sdp")
       ELSE IF wm.signalingState = "have-remote-offer"
         THEN Catch(wm, i, "state")
       ELSE Return([wm EXCEPT !.signalingState = "have-local-offer"],
                   i, "offer")
  /\ UNCHANGED <<vars, tb, neg, rx, sq>>

\* handleOffer and handleAnswer after setRemoteDescription: the first
\* attempt sets remoteDescriptionSet and drains the queue
AfterRemoteSet(w, i) ==
  IF w.ops[i].retry THEN CreateAnswer(w, i)
  ELSE WmProcessIceCandidateQueue([w EXCEPT !.remoteDescriptionSet = TRUE], i)

\* setRemoteDescription(offer) settles
RemoteOfferSet(i) ==
  LET o == wm.ops[i] IN
  /\ o.at = "setRemoteOffer" /\ Settles(wm, o)
  /\ wm' =
       IF o.offer = "bad" THEN Catch(wm, i, "sdp")
       ELSE IF o.pc # wm.pc THEN AfterRemoteSet(wm, i)
       ELSE IF wm.signalingState = "have-local-offer"
         THEN Catch(wm, i, "state")
       ELSE AfterRemoteSet([wm EXCEPT !.signalingState = "have-remote-offer",
                                      !.pendingRemote = TRUE], i)
  /\ UNCHANGED <<vars, tb, neg, rx, sq>>

\* pc.addIceCandidate of a queued candidate settles
CandidateAdded(i) ==
  LET o == wm.ops[i] IN
  /\ o.at = "drain" /\ Settles(wm, o)
  /\ wm' =
       IF o.pc = wm.pc /\ HasRemote(wm)
         THEN WmProcessIceCandidateQueue([wm EXCEPT !.applied = Append(@, o.cand)], i)
       ELSE WmProcessIceCandidateQueue([wm EXCEPT !.stray = @ \/ o.pc = wm.pc], i)
  /\ UNCHANGED <<vars, tb, neg, rx, sq>>

\* pc.createAnswer() settles, then setLocalDescription(answer) is called
AnswerCreated(i) ==
  LET o == wm.ops[i] IN
  /\ o.at = "createAnswer" /\ Settles(wm, o)
  /\ wm' =
       IF o.pc = wm.pc /\ wm.signalingState # "have-remote-offer"
         THEN Catch(wm, i, "state")
       ELSE IF wm.pc = 0 THEN Catch(wm, i, "type")
       ELSE [wm EXCEPT !.ops[i].at = "setLocalAnswer",
                       !.ops[i].pc = wm.pc, !.ops[i].descFrom = o.pc]
  /\ UNCHANGED <<vars, tb, neg, rx, sq>>

\* setLocalDescription(answer) settles
LocalAnswerSet(i) ==
  LET o == wm.ops[i] IN
  /\ o.at = "setLocalAnswer" /\ Settles(wm, o)
  /\ wm' =
       IF o.pc # wm.pc THEN Return(wm, i, "answer")
       ELSE IF o.descFrom # o.pc THEN Catch(wm, i, "sdp")
       ELSE IF wm.signalingState # "have-remote-offer"
         THEN Catch(wm, i, "state")
       ELSE Return([wm EXCEPT !.signalingState = "stable",
                              !.pendingRemote = FALSE,
                              !.currentRemote = TRUE], i, "answer")
  /\ UNCHANGED <<vars, tb, neg, rx, sq>>

\* setRemoteDescription(answer) settles
RemoteAnswerSet(i) ==
  LET o == wm.ops[i] IN
  /\ o.at = "setRemoteAnswer" /\ Settles(wm, o)
  /\ wm' =
       IF o.pc # wm.pc THEN AfterRemoteSet(wm, i)
       ELSE IF wm.signalingState # "have-local-offer"
         THEN Catch(wm, i, "state")
       ELSE AfterRemoteSet([wm EXCEPT !.signalingState = "stable",
                                      !.currentRemote = TRUE], i)
  /\ UNCHANGED <<vars, tb, neg, rx, sq>>

WmNext ==
  \/ TimerCreateOffer
  \/ WmHandleSignal
  \/ CoordinatorClose
  \/ StartFileTransferTimer
  \/ ConnectToDeviceById
  \/ Connected
  \/ QueueData
  \/ \E i \in 1..Len(wm.ops) :
       \/ RollbackSettles(i)
       \/ WaitOver(i)
       \/ OfferWaitOver(i)
       \/ OfferCreated(i)
       \/ SdpError(i)
       \/ LocalOfferSet(i)
       \/ RemoteOfferSet(i)
       \/ CandidateAdded(i)
       \/ AnswerCreated(i)
       \/ LocalAnswerSet(i)
       \/ RemoteAnswerSet(i)

WmSpec == WmStart /\ [][WmNext]_<<vars, clientVars>>

\* --------------------------------------------------------------------- C21
IsClosed(w) ==
  /\ w.pc = 0 /\ w.dc = 0
  /\ w.sendQueue = <<>> /\ w.iceCandidateQueue = <<>>
  /\ ~w.isSending /\ ~w.isCreatingOffer /\ ~w.isHandlingOffer
  /\ ~w.isHandlingAnswer /\ ~w.remoteDescriptionSet
  /\ w.connectionState = "disconnected"

\* C21: from every state the negotiator can be in, close() leaves no
\* connection object and no data channel, empty send and candidate queues,
\* the four flags and remoteDescriptionSet false and the connection state
\* 'disconnected'; a second close() changes nothing.
C21_CloseIsIdempotent ==
  LET once == WmClose(wm) IN
  /\ IsClosed(once)
  /\ WmClose(once) = once

\* close() has run on a manager that had a connection, a queued entry and an
\* operation in flight
C21_Witness == wm.busyAtClose /\ IsClosed(wm)

\* ----------------------------------- a close during sendFiles (C22)
\* sendFiles with one file of up to MaxClosedChunks chunks, run up to the end
\* of the chunk loop on a channel that is empty or full at the start, and a
\* close() of the negotiator at any moment of it.
MaxClosedChunks == 3

TfInit ==
  /\ \E n \in 1..MaxClosedChunks, b \in {0, MAX_BUFFERED_AMOUNT} :
       sq = OpenManager(b, [pc |-> "check", offset |-> 0,
                            size |-> n * CHUNK_SIZE])
  /\ RelayIdle
  /\ tb = Idle /\ neg = Idle /\ rx = Idle /\ wm = Idle

TfNext == BpNext \/ Close

\* every timer fires and every settled promise is followed up; the channel
\* need not drain and nobody need call close()
TfFairSpec ==
  /\ TfInit
  /\ [][TfNext]_<<vars, clientVars>>
  /\ WF_<<vars, clientVars>>(SendChunk)
  /\ WF_<<vars, clientVars>>(BufferWaitPoll)
  /\ WF_<<vars, clientVars>>(ChunkSent)
  /\ WF_<<vars, clientVars>>(WaitPoll)
  /\ WF_<<vars, clientVars>>(FlushPoll)
  /\ WF_<<vars, clientVars>>(BufferedAmountLow)

\* the `finally` of sendFiles has run: sendFile threw, or its chunk loop is
\* through (the sendData of the EOF then rejects on the closed channel)
SendFilesOver == sq.sender.pc \in {"failed", "done"}

\* C22: once the negotiator has been closed during sendFiles, the send
\* terminates and isTransferring becomes false.
C22_CloseEndsTransfer == (sq.closes > 0) ~> SendFilesOver

\* --------------------------------------------------------------------- C23
OpsOf(kind) == {i \in 1..Len(wm.ops) : wm.ops[i].kind = kind}

InFlight(kind) == {i \in OpsOf(kind) : wm.ops[i].at # "done"}

\* C23: a createOffer called while an earlier createOffer has not returned
\* returns undefined and does not operate on the connection.
C23_OneCreateOfferInFlight ==
  \A i \in OpsOf("createOffer") :
     wm.ops[i].overlapped =>
        /\ wm.ops[i].result = "undefined"
        /\ ~wm.ops[i].touched

\* --------------------------------------------------------------------- C24
\* the operation is at an await that will return and has operated on the
\* connection
Operating(i) ==
  /\ wm.ops[i].at # "done"
  /\ wm.ops[i].touched
  /\ wm.ops[i].pc \notin wm.dead

\* C24: no state has a createOffer and a handleOffer in flight that both
\* operate on the connection.
C24_OfferCreationExcludesHandling ==
  ~ \E i \in OpsOf("createOffer"), j \in OpsOf("handleOffer") :
       Operating(i) /\ Operating(j)

\* --------------------------------------------------------------------- C25
\* dc.send throws for the item of a loop that comes out of its buffer wait:
\* the catch block of processQueue takes the item off, rejects it and breaks
SendThrows ==
  \E i \in 1..Len(sq.loops) :
    LET l      == sq.loops[i]
        target == IF l.isLastItem THEN 3 ELSE 6
        rest   == [sq EXCEPT !.loops = RemoveAt(@, i)]
    IN /\ l.pc = "wait"
       /\ sq.dc = "open" /\ ~Above(sq.bufferedAmount, target)
       /\ sq' = [Reject([rest EXCEPT !.sendQueue = Shift(@)], l.item.id)
                   EXCEPT !.isSending = FALSE]
       /\ UNCHANGED <<vars, tb, neg, rx, wm>>

\* one manager, followed either through its negotiation operations or
\* through its send queue
GuardStart ==
  /\ \/ /\ wm \in {NewManager, OfferedManager}
        /\ sq = OpenManager(0, NoSender)
     \/ /\ wm = NewManager
        /\ sq = OpenManager(MAX_BUFFERED_AMOUNT, NoSender)
  /\ RelayIdle
  /\ tb = Idle /\ neg = Idle /\ rx = Idle

GuardNext ==
  \/ WmNext /\ sq = OpenManager(0, NoSender)
  \/ (SqNext \/ SendThrows) /\ wm = NewManager

GuardSpec == GuardStart /\ [][GuardNext]_<<vars, clientVars>>

\* C25: while no createOffer is in flight isCreatingOffer is false, and the
\* same for handleOffer with isHandlingOffer, handleAnswer with
\* isHandlingAnswer and processQueue with isSending, whichever way the
\* operations ended.
C25_FlagsClearedOnExit ==
  /\ InFlight("createOffer") = {} => ~wm.isCreatingOffer
  /\ InFlight("handleOffer") = {} => ~wm.isHandlingOffer
  /\ InFlight("handleAnswer") = {} => ~wm.isHandlingAnswer
  /\ sq.loops = <<>> => ~sq.isSending

\* an operation threw and a later one of its kind got past the guard
C25_Witness ==
  \E i, j \in 1..Len(wm.ops) :
     /\ i < j
     /\ wm.ops[i].kind = wm.ops[j].kind
     /\ wm.ops[i].result = "threw" /\ wm.ops[i].touched
     /\ wm.ops[j].touched

\* --------------------------------------------------------------------- C26
Negotiations == OpsOf("createOffer") \cup OpsOf("handleOffer")

\* C26: a createOffer or handleOffer call makes at most two attempts on the
\* connection and resets it at most once; a successful call that has reset
\* the connection has made exactly two attempts; a call whose second attempt
\* failed has rejected.
C26_RetriesExactlyOnce ==
  \A i \in Negotiations :
     LET o == wm.ops[i] IN
     /\ o.attempts <= 2
     /\ o.resets <= 1
     /\ (o.resets = 1 /\ o.result \in {"offer", "answer"}) => o.attempts = 2
     /\ (o.attempts = 2 /\ o.failures = 2) =>
           /\ o.at = "done"
           /\ o.result = "threw" /\ o.error # "none"

\* a call has failed in both attempts and has rejected
C26_Witness ==
  \E i \in Negotiations :
     /\ wm.ops[i].attempts = 2 /\ wm.ops[i].failures = 2
     /\ wm.ops[i].resets = 1
     /\ wm.ops[i].result = "threw"

\* --------------------------------------------------------------------- C27
\* C27: a handleAnswer called with no connection or with the connection in
\* another state than have-local-offer rejects at once, without a call on
\* the connection and with the descriptions, remoteDescriptionSet and the
\* candidate queue as they were; an answer is handed to the connection only
\* by a call that found have-local-offer.
C27_AnswerOnlyInHaveLocalOffer ==
  \A i \in OpsOf("handleAnswer") :
     LET o == wm.ops[i] IN
     /\ o.sigAtCall # "have-local-offer" =>
           /\ o.at = "done" /\ o.result = "threw"
           /\ ~o.touched /\ ~o.changed
     /\ o.touched => o.sigAtCall = "have-local-offer"

\* handleAnswer has rejected on a connection in state stable that had a
\* candidate queued
C27_Witness ==
  \E i \in OpsOf("handleAnswer") :
     /\ wm.ops[i].sigAtCall = "stable"
     /\ wm.ops[i].result = "threw"
     /\ wm.iceCandidateQueue # <<>>

\* --------------------------------------------------------------------- C28
\* C28: whenever remoteDescriptionSet is true the connection object of the
\* moment has a remote description, and no candidate is handed to a
\* connection object that has none.
C28_CandidatesNeedRemoteDescription ==
  /\ wm.remoteDescriptionSet => (wm.pc # 0 /\ HasRemote(wm))
  /\ ~wm.stray

\* --------------------------------------------------------------------- C29
Increasing(q) == \A a, b \in 1..Len(q) : a < b => q[a] < q[b]

\* C29: when handleOffer returns an answer or handleAnswer returns normally
\* the candidate queue is empty, and the connection has taken its candidates
\* in the order in which addIceCandidate received them.
C29_QueuedCandidatesApplied ==
  /\ \A i \in OpsOf("handleOffer") \cup OpsOf("handleAnswer") :
        wm.ops[i].result \in {"answer", "ok"} =>
           wm.ops[i].queueAtReturn = <<>>
  /\ Increasing(wm.applied)

\* --------------------------------------------------------------------- C30
\* the operations whose forceReset or completeRecreation has completed
ResetOver == {i \in 1..Len(wm.ops) : wm.ops[i].after # NoSnapshot}

\* C30: when forceReset or completeRecreation is over the negotiator holds a
\* connection object made after the reset began, with the role and the
\* callbacks it had when the reset began and with empty queues.
C30_ResetLeavesFreshConnection ==
  \A i \in ResetOver :
     LET o == wm.ops[i] IN
     /\ o.after.pc # 0 /\ o.after.fresh
     /\ o.after.isSender = o.role
     /\ o.after.sendQueue = <<>> /\ o.after.iceCandidateQueue = <<>>
     /\ o.after.callbacks = o.cbs

\* --------------------------------------------------------------------- C37
\* C37: the disconnect of a handle leaves alone every registry entry that
\* maps to another handle, and the pairing of such an identifier.
C37_DisconnectKeepsOthersEntries ==
  [][\A s \in Sockets :
       (last' = Call("disconnect", s, Undefined, 0) /\ sockState[s] = "open") =>
          \A id \in DeviceIds :
             (MapHas(devices, id) /\ MapGet(devices, id) # s) =>
                /\ MapGet(devices', id) = MapGet(devices, id)
                /\ deviceConnections'[id] = deviceConnections[id]]_vars

\* ------------------------------------- a lost chunk and the grace wait (C33)
\* One file whose last chunk the channel loses: the receiver gets the
\* metadata, the other chunks and the EOF.
IsChunk(m) == m.type = "chunk"

LastChunkLost(sent) ==
  IF \E k \in 1..Len(sent) : IsChunk(sent[k])
  THEN LET k == CHOOSE j \in 1..Len(sent) :
                  /\ IsChunk(sent[j])
                  /\ \A l \in (j + 1)..Len(sent) : ~IsChunk(sent[l])
       IN RemoveAt(sent, k)
  ELSE sent

GraceInit ==
  /\ \E files \in Batches, chunkSize \in ChunkSizes :
       /\ Len(files) = 1
       /\ rx = [files |-> files, chunkSize |-> chunkSize,
                fault |-> "chunkLost",
                channel |-> LastChunkLost(sendFiles(files, chunkSize)),
                fts |-> NewFileTransferState,
                timers |-> <<>>,
                receivedFiles |-> <<>>,
                calls |-> 0]
  /\ RelayIdle
  /\ tb = Idle /\ neg = Idle /\ sq = Idle /\ wm = Idle

\* the channel delivers what it holds and every timer that is armed fires
GraceFairSpec ==
  /\ GraceInit
  /\ [][RxNext]_<<vars, clientVars>>
  /\ WF_<<vars, clientVars>>(Deliver)
  /\ WF_<<vars, clientVars>>(CompletionCheck)
  /\ WF_<<vars, clientVars>>(EofTimeout)
  /\ WF_<<vars, clientVars>>(SecondEofTimeout)
  /\ WF_<<vars, clientVars>>(GraceTimeout)

\* the EOF has come, nothing more will come, and the receiver holds at
\* least 99.9% of the declared size but not all of it
CloseEnoughAtEof ==
  /\ rx.channel = <<>>
  /\ rx.fts.eofReceived
  /\ rx.fts.receivedSize < rx.fts.fileSize
  /\ rx.fts.receivedSize * 1000 >= rx.fts.fileSize * 999

\* C33: a file whose EOF has come while the receiver holds at least 99.9%
\* of the declared size, but not all of it, is eventually finalized into an
\* artifact.
C33_CloseEnoughIsFinalized ==
  CloseEnoughAtEof ~> (ArtifactsOf(rx.fts.currentFileIndex) # {})

\* --------------------------------------------------------------------- C34
CountOfEof(q, i) ==
  LET eof(m) == m.type = "EOF" /\ m.file = i IN Len(SelectSeq(q, eof))

\* an EOF of file i has been handed to the receiver
EofDelivered(i) ==
  CountOfEof(rx.channel, i) <
     CountOfEof(Transit(sendFiles(rx.files, rx.chunkSize), rx.fault), i)

\* C34: a file has an artifact only after its EOF has been received.
C34_NoArtifactBeforeEof ==
  \A i \in 1..Len(rx.files) : ArtifactsOf(i) # {} => EofDelivered(i)

StallFairSpec ==
  /\ SqInit
  /\ [][SqNext]_<<vars, clientVars>>
  /\ WF_<<vars, clientVars>>(WaitPoll)
  /\ WF_<<vars, clientVars>>(FlushPoll)
  /\ WF_<<vars, clientVars>>(BufferedAmountLow)

\* a processQueue invocation is in its buffer wait
InBufferWait == \E i \in 1..Len(sq.loops) : sq.loops[i].pc = "wait"

\* C36: a buffer wait of processQueue comes to an end, whether or not the
\* channel drains.
C36_BufferWaitEnds == InBufferWait ~> ~InBufferWait

\* ----------------------------------------- a send error in the loop (C39)
\* a channel that stays open and keeps draining, with dc.send failing for
\* some items
ErrNext ==
  \/ SendData
  \/ WaitPoll
  \/ FlushPoll
  \/ Drain
  \/ BufferedAmountLow
  \/ SendThrows

ErrFairSpec ==
  /\ SqInit
  /\ [][ErrNext]_<<vars, clientVars>>
  /\ WF_<<vars, clientVars>>(WaitPoll)
  /\ WF_<<vars, clientVars>>(FlushPoll)
  /\ WF_<<vars, clientVars>>(Drain)
  /\ WF_<<vars, clientVars>>(BufferedAmountLow)

\* C39: on a channel that keeps draining every accepted item is eventually
\* sent or rejected, also behind an item that failed with a send error.
C39_AcceptedItemsSettle ==
  \A id \in 1..MaxItems : (id \in sq.pending) ~> (id \notin sq.pending)


\* --------------------------------------------------------------------- C38
\* signals dropped at most this often in one behaviour
MaxDropped == 1

\* the coordinator's handleSignal with a history of the signals it returned
\* from without handing them to the negotiator
DropStart ==
  /\ wm \in {NewManager @@ [dropped |-> 0], OfferedManager @@ [dropped |-> 0]}
  /\ RelayIdle
  /\ tb = Idle /\ neg = Idle /\ rx = Idle /\ sq = Idle

\* handleSignal(from, data) while isCreatingOffer, isHandlingOffer or
\* isHandlingAnswer is set: one console.log, then return
SignalDropped ==
  /\ wm.isCreatingOffer \/ wm.isHandlingOffer \/ wm.isHandlingAnswer
  /\ wm.dropped < MaxDropped
  /\ wm' = [wm EXCEPT !.dropped = @ + 1]
  /\ UNCHANGED <<vars, tb, neg, rx, sq>>

DropNext ==
  \/ WmHandleSignal
  \/ SignalDropped
  \/ TimerCreateOffer
  \/ CoordinatorClose
  \/ StartFileTransferTimer
  \/ Connected
  \/ \E i \in 1..Len(wm.ops) :
       \/ RollbackSettles(i)
       \/ WaitOver(i)
       \/ OfferWaitOver(i)
       \/ OfferCreated(i)
       \/ SdpError(i)
       \/ LocalOfferSet(i)
       \/ RemoteOfferSet(i)
       \/ CandidateAdded(i)
       \/ AnswerCreated(i)
       \/ LocalAnswerSet(i)
       \/ RemoteAnswerSet(i)

DropSpec == DropStart /\ [][DropNext]_<<vars, clientVars>>

\* C38: every offer, answer and candidate passed to handleSignal is handed
\* to the negotiator or kept for later; none is dropped because a
\* createOffer, handleOffer or handleAnswer is in flight
C38_NoSignalDiscarded == wm.dropped = 0


\* ---------------------------------------------------------------- C31, C32
\* The timers of a connection attempt.  startFileTransfer arms a 100 ms
\* timer; its callback calls initializePeerConnection, which arms the 10 s
\* stuck-connecting timer, and arms the 500 ms offer timer on the peer with
\* the lower device id or the 3 s fallback timer on the other.  No handle is
\* kept and nothing clears them.  A timer is a record of the close() count
\* and of the number of operations at the time its attempt started.
\* connectionAttemptInProgress is set at server.js:466 and cleared again by
\* resetFileTransferState (440) before startFileTransfer returns, so it
\* guards nothing and the 20 s timer that clears it changes nothing.
MaxStarts == 2

Timer(kind, w, since, isSender, creator) ==
  [kind |-> kind, closes |-> w.closes, since |-> since,
   isSender |-> isSender, creator |-> creator]

TimedManager ==
  NewManager @@ [starts |-> 0, timers |-> {}, fallbacks |-> {},
                 late |-> FALSE, lateOps |-> {}]

TmStart ==
  /\ wm = TimedManager
  /\ RelayIdle
  /\ tb = Idle /\ neg = Idle /\ rx = Idle /\ sq = Idle

\* a timer armed before a close() runs after it, on a connection made since
IsLate(t) == t.closes < wm.closes /\ wm.pc # 0

\* startFileTransfer(isSender) up to its return
TmStartFileTransfer ==
  /\ wm.starts < MaxStarts
  /\ \E isSender \in BOOLEAN, creator \in BOOLEAN :
       LET reset  == IF wm.connectionState = "connecting"
                        \/ (wm.connectionState = "connected" /\ wm.dc = 0)
                       THEN forceResetConnectionState(wm) ELSE wm
           closed == [WmClose(reset) EXCEPT !.closes = @ + 1]
       IN wm' = [closed EXCEPT
                   !.starts = @ + 1,
                   !.timers = @ \cup {Timer("init", closed, Len(wm.ops),
                                            isSender, creator)}]
  /\ UNCHANGED <<vars, tb, neg, rx, sq>>

\* the 100 ms callback: initializePeerConnection(isSender), then the offer
\* timer or the fallback timer
InitTimer ==
  /\ \E t \in wm.timers :
       /\ t.kind = "init"
       /\ LET made  == WmInitializePeerConnection(wm, t.isSender)
              stuck == IF made.made # wm.made
                         THEN {Timer("stuck", wm, 0, FALSE, FALSE)}
                       ELSE {}
              next  == Timer(IF t.creator THEN "offer" ELSE "fallback",
                             wm, t.since, FALSE, t.creator)
          IN wm' = [made EXCEPT
                      !.timers = ((@ \ {t}) \cup stuck) \cup {next}]
  /\ wm'.made <= MaxPcs
  /\ UNCHANGED <<vars, tb, neg, rx, sq>>

\* the 10 s callback of initializePeerConnection
StuckTimer ==
  /\ \E t \in wm.timers :
       /\ t.kind = "stuck"
       /\ IF wm.connectionState = "connecting"
             /\ (wm.pc = 0 \/ ~wm.currentRemote)
            THEN wm' = [wm EXCEPT !.connectionState = "disconnected",
                                  !.timers = @ \ {t},
                                  !.late = @ \/ IsLate(t)]
          ELSE wm' = [wm EXCEPT !.timers = @ \ {t}]
  /\ UNCHANGED <<vars, tb, neg, rx, sq>>

\* the 500 ms callback on the offer creator: createOffer()
OfferTimer ==
  /\ Len(wm.ops) < MaxOps
  /\ \E t \in wm.timers :
       /\ t.kind = "offer"
       /\ wm' = [createOffer(wm) EXCEPT
                   !.timers = @ \ {t},
                   !.lateOps = IF IsLate(t)
                                 THEN @ \cup {Len(wm.ops) + 1} ELSE @]
  /\ wm'.made <= MaxPcs
  /\ UNCHANGED <<vars, tb, neg, rx, sq>>

\* the 3 s callback on the other peer
FallbackTimer ==
  /\ \E t \in wm.timers :
       /\ t.kind = "fallback"
       /\ IF wm.connectionState = "connecting" /\ ~wm.currentRemote
            THEN /\ Len(wm.ops) < MaxOps
                 /\ wm' = [createOffer(wm) EXCEPT
                             !.timers = @ \ {t},
                             !.fallbacks =
                                @ \cup {[op |-> Len(wm.ops) + 1,
                                         since |-> t.since]},
                             !.lateOps =
                                IF IsLate(t)
                                  THEN @ \cup {Len(wm.ops) + 1} ELSE @]
          ELSE wm' = [wm EXCEPT !.timers = @ \ {t}]
  /\ wm'.made <= MaxPcs
  /\ UNCHANGED <<vars, tb, neg, rx, sq>>

\* handleSignal(from, data) with an offer, up to handleOffer's first await
IncomingOffer ==
  /\ ~(wm.isCreatingOffer \/ wm.isHandlingOffer \/ wm.isHandlingAnswer)
  /\ Len(wm.ops) < MaxOps
  /\ LET valid == IF isValidState(wm) THEN wm
                  ELSE WmInitializePeerConnection(wm, TRUE)
     IN \E offer \in {"good", "bad"} : wm' = handleOffer(valid, offer)
  /\ wm'.made <= MaxPcs
  /\ UNCHANGED <<vars, tb, neg, rx, sq>>

TmNext ==
  \/ TmStartFileTransfer
  \/ InitTimer
  \/ StuckTimer
  \/ OfferTimer
  \/ FallbackTimer
  \/ IncomingOffer
  \/ Connected
  \/ \E i \in 1..Len(wm.ops) :
       \/ RollbackSettles(i)
       \/ WaitOver(i)
       \/ OfferCreated(i)
       \/ SdpError(i)
       \/ LocalOfferSet(i)
       \/ RemoteOfferSet(i)
       \/ AnswerCreated(i)
       \/ LocalAnswerSet(i)

TmSpec == TmStart /\ [][TmNext]_<<vars, clientVars>>

\* C31: a timer armed before a close() neither changes the connection state
\* of, nor creates an offer on, a connection initialized after that close()
C31_NoLateTimerEffect ==
  /\ ~wm.late
  /\ \A i \in wm.lateOps : wm.ops[i].result # "offer"

\* C32: a fallback timer that creates an offer has seen no incoming offer
\* since its connection attempt started
C32_FallbackOnlyWithoutOffer ==
  \A f \in wm.fallbacks :
     wm.ops[f.op].result = "offer" =>
        \A j \in (f.since + 1)..(f.op - 1) : wm.ops[j].kind # "handleOffer"


\* --------------------------------------------------------------------- C35
\* sendFiles and sendFile followed from await to await on top of the send
\* queue.  The sender record holds the batch (this.currentFiles), the file
\* and offset of the run, the messages the run has passed to sendData in
\* their order (enq; the k-th of them is the item base + k of the queue) and
\* the number of sendFiles calls that returned at the isTransferring test.
MaxBatch == 2

MaxSendFilesCalls == 2

\* chunks in a batch
MaxBatchChunks == 6

\* `offset % (CHUNK_SIZE * 4) === 0`: a 10 ms pause after every fourth chunk
PauseEvery == 4

BatchName == <<97>>

BatchSizes == {0, CHUNK_SIZE + 1, PauseEvery * CHUNK_SIZE}

BatchFiles == [name : {BatchName}, size : BatchSizes]

\* the number of chunks of a batch
RECURSIVE ChunksOf(_)
ChunksOf(files) ==
  IF files = <<>> THEN 0
  ELSE (Head(files).size + CHUNK_SIZE - 1) \div CHUNK_SIZE + ChunksOf(Tail(files))

RECURSIVE Digits(_)
Digits(n) == IF n < 10 THEN 1 ELSE 1 + Digits(n \div 10)

\* the bytes dc.send is given: the ArrayBuffer of a chunk, or the
\* JSON.stringify text of a control message
ByteLength(m) ==
  CASE m.type = "chunk"         -> m.size
    [] m.type = "EOF"           -> 14
    [] m.type = "multiFileMeta" -> 31 + Digits(m.size)
    [] m.type = "meta"          -> 19 + Len(m.name) + Digits(m.size)

\* the channel starts full, so that the waits of sendFile and of
\* processQueue are entered; Drain takes it to every lower level
BatchSender(files) ==
  [pc |-> "off", offset |-> 0, size |-> 0, files |-> files, file |-> 0,
   isTransferring |-> FALSE, awaited |-> 0,
   enq |-> <<>>, base |-> 0, calls |-> 0, refused |-> 0]

BatchInit ==
  /\ \E n \in 1..MaxBatch : \E files \in [1..n -> BatchFiles] :
       /\ ChunksOf(files) <= MaxBatchChunks
       /\ sq = OpenManager(MAX_BUFFERED_AMOUNT, BatchSender(files))
  /\ RelayIdle
  /\ tb = Idle /\ neg = Idle /\ rx = Idle /\ wm = Idle

\* a rejected sendData or a TypeError: sendFile throws, sendFiles catches
\* and its finally block clears isTransferring
BatchFail(s) ==
  [s EXCEPT !.sender.pc = "failed", !.sender.isTransferring = FALSE]

\* `await this.webrtcManager.sendData(m)` up to its suspension at pc
BatchSend(s, m, pc) ==
  IF s.dc # "open" THEN BatchFail(s)
  ELSE [sendData(s, Item(s.accepted + 1, ByteLength(m))) EXCEPT
          !.sender.enq = Append(@, m),
          !.sender.awaited = s.accepted + 1,
          !.sender.pc = pc]

\* sendFile(file, i, total) from its call to the await of its metadata
BatchStartFile(s, i) ==
  BatchSend([s EXCEPT !.sender.file = i, !.sender.offset = 0,
                      !.sender.size = s.sender.files[i].size],
            Metadata(i, s.sender.files[i]), "meta")

\* the chunk file.slice(offset, offset + CHUNK_SIZE) of the current file
BatchChunk(snd) ==
  Chunk(snd.file, snd.offset, Min(CHUNK_SIZE, snd.size - snd.offset))

\* sendFile after the queue wait: the 100 ms delay before the end marker
AfterFlush(s) ==
  IF s.sendQueue # <<>> THEN [s EXCEPT !.sender.pc = "qwait"]
  ELSE [s EXCEPT !.sender.pc = "eofdelay"]

\* sendFile after its chunk loop
AfterLoop(s) ==
  IF s.sender.offset # s.sender.size THEN BatchFail(s)
  ELSE IF s.dc # "null" /\ s.bufferedAmount > 0
    THEN [s EXCEPT !.sender.pc = "flush"]
  ELSE AfterFlush(s)

\* the head of the chunk loop: the next slice is read, or the loop is over
LoopHead(s) ==
  IF s.sender.offset < s.sender.size THEN [s EXCEPT !.sender.pc = "turn"]
  ELSE AfterLoop(s)

\* isTransferring = true; the history of the run starts anew unless a run
\* is still going
RunStart(s) ==
  [s EXCEPT !.sender.isTransferring = TRUE,
            !.sender.enq = IF s.sender.isTransferring THEN @ ELSE <<>>,
            !.sender.base = IF s.sender.isTransferring THEN @ ELSE s.accepted]

\* a sendFiles that does not look at isTransferring
BatchSendFiles_NoGuard(s) ==
  IF s.sender.files = <<>> THEN s
  ELSE BatchSend(RunStart(s), MultiFileMeta(Len(s.sender.files)), "header")

\* sendFiles(files) from its call to its first await or its return
BatchSendFiles(s) ==
  IF s.sender.files = <<>> THEN s
  ELSE IF s.sender.isTransferring
    THEN [s EXCEPT !.sender.refused = @ + 1]
  ELSE BatchSend(RunStart(s), MultiFileMeta(Len(s.sender.files)), "header")

Settled(s) == s.sender.awaited \in s.resolved \cup s.rejected

\* onDataChannelOpen calls sendFiles(this.currentFiles)
SendFilesCall ==
  /\ sq.sender.calls < MaxSendFilesCalls
  /\ sq' = BatchSendFiles([sq EXCEPT !.sender.calls = @ + 1])
  /\ UNCHANGED <<vars, tb, neg, rx, wm>>

\* the header's sendData is settled: the first file
HeaderSent ==
  /\ sq.sender.pc = "header" /\ Settled(sq)
  /\ sq' = IF sq.sender.awaited \in sq.rejected THEN BatchFail(sq)
           ELSE BatchStartFile(sq, 1)
  /\ UNCHANGED <<vars, tb, neg, rx, wm>>

\* the metadata's sendData is settled: the chunk loop
MetadataSent ==
  /\ sq.sender.pc = "meta" /\ Settled(sq)
  /\ sq' = IF sq.sender.awaited \in sq.rejected THEN BatchFail(sq)
           ELSE LoopHead(sq)
  /\ UNCHANGED <<vars, tb, neg, rx, wm>>

\* the slice is read: the buffer test, then the wait or the sendData
ChunkRead ==
  /\ sq.sender.pc = "turn"
  /\ sq' = IF sq.dc # "null" /\ Above(sq.bufferedAmount, 7)
             THEN [sq EXCEPT !.sender.pc = "bwait", !.paused = TRUE]
           ELSE BatchSend(sq, BatchChunk(sq.sender), "chunk")
  /\ UNCHANGED <<vars, tb, neg, rx, wm>>

\* a 50 ms poll of sendFile's buffer wait ends it (half the maximum is
\* reached or the 3 s are over), or finds this.webrtcManager.dc null
BatchWaitPoll ==
  /\ sq.sender.pc = "bwait"
  /\ sq' = IF sq.dc = "null" THEN BatchFail(sq)
           ELSE BatchSend([sq EXCEPT !.early = @ \/ Above(sq.bufferedAmount, 5)],
                          BatchChunk(sq.sender), "chunk")
  /\ UNCHANGED <<vars, tb, neg, rx, wm>>

\* the chunk's sendData is settled: offset moves on; the pause, the next
\* turn or the end of the loop
BatchChunkSent ==
  /\ sq.sender.pc = "chunk" /\ Settled(sq)
  /\ LET len   == Min(CHUNK_SIZE, sq.sender.size - sq.sender.offset)
         moved == [sq EXCEPT !.sender.offset = @ + len]
     IN sq' = IF sq.sender.awaited \in sq.rejected THEN BatchFail(sq)
              ELSE IF moved.sender.offset % (CHUNK_SIZE * PauseEvery) = 0
                THEN [moved EXCEPT !.sender.pc = "pause"]
              ELSE LoopHead(moved)
  /\ UNCHANGED <<vars, tb, neg, rx, wm>>

\* the 10 ms pause is over
PauseOver ==
  /\ sq.sender.pc = "pause"
  /\ sq' = LoopHead(sq)
  /\ UNCHANGED <<vars, tb, neg, rx, wm>>

\* the race of forceFlushBuffer with its 10 s timer is over
FlushOver ==
  /\ sq.sender.pc = "flush"
  /\ sq' = AfterFlush(sq)
  /\ UNCHANGED <<vars, tb, neg, rx, wm>>

\* the 100 ms delay is over: sendData of the end marker
EofDelayOver ==
  /\ sq.sender.pc = "eofdelay"
  /\ sq' = BatchSend(sq, Eof(sq.sender.file), "eof")
  /\ UNCHANGED <<vars, tb, neg, rx, wm>>

\* the end marker's sendData is settled: the next file, or the end of
\* sendFiles with its finally block
EofSent ==
  /\ sq.sender.pc = "eof" /\ Settled(sq)
  /\ sq' = IF sq.sender.awaited \in sq.rejected THEN BatchFail(sq)
           ELSE IF sq.sender.file < Len(sq.sender.files)
             THEN BatchStartFile(sq, sq.sender.file + 1)
           ELSE [sq EXCEPT !.sender.pc = "done",
                           !.sender.isTransferring = FALSE]
  /\ UNCHANGED <<vars, tb, neg, rx, wm>>

BatchNext ==
  \/ SendFilesCall
  \/ HeaderSent
  \/ MetadataSent
  \/ ChunkRead
  \/ BatchWaitPoll
  \/ BatchChunkSent
  \/ PauseOver
  \/ FlushOver
  \/ EofDelayOver
  \/ EofSent
  \/ WaitPoll
  \/ FlushPoll
  \/ Drain
  \/ BufferedAmountLow
  \/ SendThrows
  \/ Close

BatchSpec == BatchInit /\ [][BatchNext]_<<vars, clientVars>>

IsPrefixOf(a, b) == Len(a) <= Len(b) /\ a = SubSeq(b, 1, Len(a))

SentIdSet == {sq.sent[j].id : j \in 1..Len(sq.sent)}

\* C35: what a run of sendFiles has passed to the send queue is a prefix of
\* header, then per file metadata, chunks of min(CHUNK_SIZE, size - offset)
\* bytes in offset order, end marker, and the whole of it when the run is
\* over; a message of file i + 1 is in only when the end marker of file i
\* has been given to the channel; nothing else enters the queue, so a
\* sendFiles called during the run sends nothing
C35_BatchInOrder ==
  LET snd  == sq.sender
      full == sendFiles(snd.files, CHUNK_SIZE)
  IN /\ IsPrefixOf(snd.enq, full)
     /\ snd.pc = "done" => snd.enq = full
     /\ sq.accepted = snd.base + Len(snd.enq)
     /\ \A k \in 1..Len(snd.enq) :
          snd.enq[k].file > 1 =>
             \E e \in 1..(k - 1) :
                /\ snd.enq[e] = Eof(snd.enq[k].file - 1)
                /\ (snd.base + e) \in SentIdSet

\* a batch of two files, the first of two chunks, has been sent to its end
\* and a sendFiles called during the run was refused
C35_Witness ==
  /\ sq.sender.pc = "done"
  /\ sq.sender.refused > 0
  /\ Len(sq.sender.files) = 2
  /\ sq.sender.files[1].size = CHUNK_SIZE + 1
  /\ sq.sender.files[2].size = PauseEvery * CHUNK_SIZE

=============================================================================
